---- MODULE Spec2Model ----
(***************************************************************************)
(* A model of the janql storage engine (src/src): write-ahead log,         *)
(* memtable, sorted table builder / reader / iterator and the Database     *)
(* that owns them.  Files are byte sequences; strings are the sequences of *)
(* their UTF-8 bytes; u32 / u64 fields are little-endian byte groups, so   *)
(* the readers parse exactly the bytes the writers produced.               *)
(***************************************************************************)
EXTENDS Integers, Sequences, FiniteSets, TLC

(***************************************************************************)
(* Bounds of the model.                                                    *)
(***************************************************************************)
\* number of set / del / batch_set calls in one behaviour
MaxWrites == 2
\* number of microseconds the clock advances in one behaviour; every table
\* file created (by a flush or a compaction) takes one
MaxClock == 3
\* first reading of the microsecond clock; every reading has the same number
\* of decimal digits, as as_micros() has from 2001 to 2286
ClockStart == 1001
\* process stops in one behaviour
MaxCrashes == 1
\* well-formed records of a WAL file that load is given
MaxRecords == 2
\* keys a table is built from when the table API is called directly
MaxEntries == 4

(***************************************************************************)
(* Program constants.                                                      *)
(***************************************************************************)
BLOCK_SIZE == 4096
MEMTABLE_THRESHOLD == 4194304
OP_SET == 1
OP_DEL == 2
\* TOMBSTONE is u32::MAX; it only ever occurs through to_le_bytes() and
\* from_le_bytes(), so it is kept as its four little-endian bytes.
TOMBSTONE == <<255, 255, 255, 255>>

(***************************************************************************)
(* Strings and bytes.                                                      *)
(***************************************************************************)
\* Option<T>
None == [tag |-> "None"]
Some(v) == [tag |-> "Some", val |-> v]

\* "a", "ab" and "1", "2" as UTF-8 bytes
KeyA == <<97>>
KeyAB == <<97, 98>>
Val1 == <<49>>
Val2 == <<50>>
Keys == {KeyA, KeyAB}
Values == {Val1, Val2}
\* the prefixes asked of get_by_prefix: "", "a", "ab", "b"
Prefixes == {<<>>, KeyA, KeyAB, <<98>>}

\* byte-lexicographic order of str / String / PathBuf components
RECURSIVE StrLess(_, _)
StrLess(a, b) ==
    IF b = <<>> THEN FALSE
    ELSE IF a = <<>> THEN TRUE
    ELSE IF Head(a) # Head(b) THEN Head(a) < Head(b)
    ELSE StrLess(Tail(a), Tail(b))

StrLeq(a, b) == a = b \/ StrLess(a, b)

\* str::starts_with
StartsWith(s, p) == Len(p) <= Len(s) /\ SubSeq(s, 1, Len(p)) = p

\* the least element of a non-empty finite set of strings
MinStr(S) == CHOOSE x \in S : \A y \in S : StrLeq(x, y)

\* ascending iteration order of a BTreeMap's keys
RECURSIVE SortedSeq(_)
SortedSeq(S) ==
    IF S = {} THEN <<>>
    ELSE LET m == MinStr(S) IN <<m>> \o SortedSeq(S \ {m})

\* u32::to_le_bytes (every number the model encodes is below 2^31)
U32LE(n) == <<n % 256, (n \div 256) % 256, (n \div 65536) % 256, (n \div 16777216) % 256>>

\* u64::to_le_bytes
U64LE(n) == U32LE(n) \o <<0, 0, 0, 0>>

\* u32::from_le_bytes.  A word of 2^31 or more is larger than every file of
\* the model; it is returned as -1, which CanRead and Seek treat as larger
\* than any length.
FromLE32(w) ==
    IF w[4] >= 128 THEN -1
    ELSE w[1] + 256 * w[2] + 65536 * w[3] + 16777216 * w[4]

\* u64::from_le_bytes, with the same convention
FromLE64(w) ==
    IF w[5] # 0 \/ w[6] # 0 \/ w[7] # 0 \/ w[8] # 0 THEN -1
    ELSE FromLE32(SubSeq(w, 1, 4))

\* Read::read_exact of n bytes at position pos succeeds
CanRead(bytes, pos, n) ==
    n = 0 \/ (n > 0 /\ pos >= 0 /\ pos + n <= Len(bytes))

\* the bytes read_exact returns
Slice(bytes, pos, n) == IF n = 0 THEN <<>> ELSE SubSeq(bytes, pos + 1, pos + n)

\* Seek::seek(SeekFrom::Current(n)) from pos; -1 is a position past every file
SeekCurrent(pos, n) == IF pos < 0 \/ n < 0 THEN -1 ELSE pos + n

\* String::from_utf8 succeeds.  The model's strings are ASCII, so a byte of
\* 128 or more in a file comes from a TOMBSTONE marker (0xFF, never valid) or
\* from the four-byte sequence of U+10FFFF.
\* 0xF4 only ever starts that sequence, so its occurrences do not overlap
\* and b is valid exactly when each byte of 128 or more lies inside one.
ValidUtf8(b) ==
    \A i \in 1..Len(b) :
        \/ b[i] < 128
        \/ \E j \in (i - 3)..i :
              /\ j >= 1 /\ j + 3 <= Len(b)
              /\ SubSeq(b, j, j + 3) = <<244, 143, 191, 191>>

(***************************************************************************)
(* MemTable (src/src/memtable.rs): map is a function from the keys present *)
(* to Option<String>; None is a tombstone.                                 *)
(***************************************************************************)
MemTableNew == [map |-> <<>>, size_bytes |-> 0]

MemHas(mt, k) == k \in DOMAIN mt.map

\* BTreeMap::insert
MapInsert(m, k, v) == [x \in (DOMAIN m) \cup {k} |-> IF x = k THEN v ELSE m[x]]

MemTableSet(mt, key, value) ==
    LET old == IF MemHas(mt, key) THEN Some(mt.map[key]) ELSE None
        s1 == IF old.tag = "Some"
              THEN IF old.val.tag = "Some" /\ mt.size_bytes >= Len(old.val.val)
                   THEN mt.size_bytes - Len(old.val.val)
                   ELSE mt.size_bytes
              ELSE mt.size_bytes + Len(key)
    IN [map |-> MapInsert(mt.map, key, Some(value)), size_bytes |-> s1 + Len(value)]

MemTableDel(mt, key) ==
    [map |-> MapInsert(mt.map, key, None),
     size_bytes |-> IF MemHas(mt, key) THEN mt.size_bytes ELSE mt.size_bytes + Len(key)]

\* Option<Option<String>>
MemTableGet(mt, key) == IF MemHas(mt, key) THEN Some(mt.map[key]) ELSE None

MemTableLen(mt) == Cardinality(DOMAIN mt.map)

\* the (key, Option<value>) pairs of MemTable::iter, in key order
MemTableIter(mt) ==
    LET ks == SortedSeq(DOMAIN mt.map)
    IN [i \in 1..Len(ks) |-> <<ks[i], mt.map[ks[i]]>>]

MemTableClear(mt) == [map |-> <<>>, size_bytes |-> 0]

(***************************************************************************)
(* WAL (src/src/wal.rs).                                                   *)
(***************************************************************************)
\* the bytes WAL::set writes
WalSetRecord(key, value) ==
    <<OP_SET>> \o U32LE(Len(key)) \o key \o U32LE(Len(value)) \o value

\* variant: del writes no record
WalDelRecord_Nothing(key) == <<>>

\* the bytes WAL::del writes
WalDelRecord(key) == <<OP_DEL>> \o U32LE(Len(key)) \o key

\* the bytes WAL::batch_set writes
RECURSIVE WalBatchRecords(_)
WalBatchRecords(entries) ==
    IF entries = <<>> THEN <<>>
    ELSE WalSetRecord(Head(entries)[1], Head(entries)[2]) \o WalBatchRecords(Tail(entries))

\* WALIterator::next at byte position pos: [st |-> "end"], [st |-> "err"] or
\* [st |-> "ok", key, val, next]
WalNext(bytes, pos) ==
    IF ~CanRead(bytes, pos, 1) THEN [st |-> "end"]
    ELSE IF ~CanRead(bytes, pos + 1, 4) THEN [st |-> "err"]
    ELSE
      LET op == bytes[pos + 1]
          klen == FromLE32(Slice(bytes, pos + 1, 4))
      IN IF ~CanRead(bytes, pos + 5, klen) THEN [st |-> "err"]
         ELSE
           LET key == Slice(bytes, pos + 5, klen)
               p2 == pos + 5 + klen
           IN IF ~ValidUtf8(key) THEN [st |-> "err"]
              ELSE IF op = OP_SET THEN
                IF ~CanRead(bytes, p2, 4) THEN [st |-> "err"]
                ELSE
                  LET vlen == FromLE32(Slice(bytes, p2, 4))
                  IN IF ~CanRead(bytes, p2 + 4, vlen) THEN [st |-> "err"]
                     ELSE
                       LET val == Slice(bytes, p2 + 4, vlen)
                       IN IF ~ValidUtf8(val) THEN [st |-> "err"]
                          ELSE [st |-> "ok", key |-> key, val |-> Some(val),
                                next |-> p2 + 4 + vlen]
              ELSE IF op = OP_DEL THEN
                [st |-> "ok", key |-> key, val |-> None, next |-> p2]
              ELSE [st |-> "err"]

\* the replay loop of Database::load: [ok, memtable]; an Err item makes load
\* return the error (entry?)
RECURSIVE WalReplay(_, _, _)
WalReplay(bytes, pos, mt) ==
    LET r == WalNext(bytes, pos)
    IN IF r.st = "end" THEN [ok |-> TRUE, memtable |-> mt]
       ELSE IF r.st = "err" THEN [ok |-> FALSE, memtable |-> mt]
       ELSE WalReplay(bytes, r.next,
                      IF r.val.tag = "Some" THEN MemTableSet(mt, r.key, r.val.val)
                      ELSE MemTableDel(mt, r.key))

(***************************************************************************)
(* SSTableBuilder (src/src/sstable/builder.rs).  file is what has been     *)
(* written to the table file so far.                                       *)
(***************************************************************************)
BuilderNew ==
    [file |-> <<>>, block_buffer |-> <<>>, index |-> <<>>,
     current_offset |-> 0, first_key_in_block |-> None]

WriteEntryToBuffer(b, key, value) ==
    [b EXCEPT !.block_buffer =
        @ \o U32LE(Len(key)) \o key \o
        (IF value.tag = "Some" THEN U32LE(Len(value.val)) \o value.val ELSE TOMBSTONE)]

\* variant: the index entry is recorded after the offset has advanced
FlushBlock_OffsetAfter(b) ==
    IF b.block_buffer = <<>> THEN b
    ELSE [file |-> b.file \o b.block_buffer,
          block_buffer |-> <<>>,
          index |-> IF b.first_key_in_block.tag = "Some"
                    THEN MapInsert(b.index, b.first_key_in_block.val,
                                   b.current_offset + Len(b.block_buffer))
                    ELSE b.index,
          current_offset |-> b.current_offset + Len(b.block_buffer),
          first_key_in_block |-> None]

FlushBlock(b) ==
    IF b.block_buffer = <<>> THEN b
    ELSE [file |-> b.file \o b.block_buffer,
          block_buffer |-> <<>>,
          index |-> IF b.first_key_in_block.tag = "Some"
                    THEN MapInsert(b.index, b.first_key_in_block.val, b.current_offset)
                    ELSE b.index,
          current_offset |-> b.current_offset + Len(b.block_buffer),
          first_key_in_block |-> None]

\* variant: the current block is never flushed before an entry is appended
BuilderAppend_NeverFlushes(b, key, value, entry_size) ==
    LET b2 == IF b.first_key_in_block.tag = "None"
              THEN [b EXCEPT !.first_key_in_block = Some(key)] ELSE b
    IN WriteEntryToBuffer(b2, key, value)

\* the part add and delete share once entry_size is known
BuilderAppend(b, key, value, entry_size) ==
    LET b1 == IF b.block_buffer # <<>> /\ Len(b.block_buffer) + entry_size > BLOCK_SIZE
              THEN FlushBlock(b) ELSE b
        b2 == IF b1.first_key_in_block.tag = "None"
              THEN [b1 EXCEPT !.first_key_in_block = Some(key)] ELSE b1
    IN WriteEntryToBuffer(b2, key, value)

BuilderAdd(b, key, value) ==
    BuilderAppend(b, key, Some(value), 4 + Len(key) + 4 + Len(value))

BuilderDelete(b, key) == BuilderAppend(b, key, None, 4 + Len(key) + 4)

\* the index region: (key_len, key, offset) in key order
RECURSIVE IndexBytes(_, _)
IndexBytes(index, ks) ==
    IF ks = <<>> THEN <<>>
    ELSE U32LE(Len(Head(ks))) \o Head(ks) \o U64LE(index[Head(ks)])
         \o IndexBytes(index, Tail(ks))

\* the whole file after finish(): data region, index region, footer
BuilderFinish(b) ==
    LET b1 == FlushBlock(b)
        index_offset == b1.current_offset
    IN b1.file \o IndexBytes(b1.index, SortedSeq(DOMAIN b1.index)) \o U64LE(index_offset)

(***************************************************************************)
(* SSTableReader (src/src/sstable/reader.rs).                              *)
(***************************************************************************)
\* the header every entry loop reads: key_len, key, val_len.
\* [st |-> "eof"] when key_len cannot be read, [st |-> "err"] when a later
\* read or from_utf8 fails, else [st |-> "ok", key, vw, vpos]: vw the four
\* val_len bytes, vpos the position after them.
ReadEntryHeader(bytes, pos) ==
    IF ~CanRead(bytes, pos, 4) THEN [st |-> "eof"]
    ELSE
      LET klen == FromLE32(Slice(bytes, pos, 4))
      IN IF ~CanRead(bytes, pos + 4, klen) THEN [st |-> "err"]
         ELSE
           LET k == Slice(bytes, pos + 4, klen)
               p2 == pos + 4 + klen
           IN IF ~ValidUtf8(k) THEN [st |-> "err"]
              ELSE IF ~CanRead(bytes, p2, 4) THEN [st |-> "err"]
              ELSE [st |-> "ok", key |-> k, vw |-> Slice(bytes, p2, 4), vpos |-> p2 + 4]

\* the index parse loop of SSTableReader::new over index_data
RECURSIVE ParseIndex(_, _, _)
ParseIndex(data, pos, index) ==
    IF ~(pos < Len(data)) THEN [ok |-> TRUE, index |-> index]
    ELSE IF ~CanRead(data, pos, 4) THEN [ok |-> TRUE, index |-> index]
    ELSE
      LET klen == FromLE32(Slice(data, pos, 4))
      IN IF ~CanRead(data, pos + 4, klen) THEN [ok |-> FALSE, index |-> index]
         ELSE
           LET k == Slice(data, pos + 4, klen)
               p2 == pos + 4 + klen
           IN IF ~ValidUtf8(k) THEN [ok |-> FALSE, index |-> index]
              ELSE IF ~CanRead(data, p2, 8) THEN [ok |-> FALSE, index |-> index]
              ELSE ParseIndex(data, p2 + 8,
                              MapInsert(index, k, FromLE64(Slice(data, p2, 8))))

\* SSTableReader::new on a file of these bytes: [ok, index].  A footer that
\* points past len - 8 makes len - 8 - index_offset overflow; no reader is
\* returned then either.
ReaderNew(bytes) ==
    LET len == Len(bytes)
    IN IF len < 8 THEN [ok |-> FALSE, index |-> <<>>]
       ELSE
         LET index_offset == FromLE64(Slice(bytes, len - 8, 8))
         IN IF index_offset < 0 \/ index_offset > len - 8
            THEN [ok |-> FALSE, index |-> <<>>]
            ELSE ParseIndex(Slice(bytes, index_offset, len - 8 - index_offset),
                            0, <<>>)

\* index.range(..=key).next_back(): the offset of the greatest index key <= key
IndexFloor(index, key) ==
    LET below == {x \in DOMAIN index : StrLeq(x, key)}
    IN IF below = {} THEN None
       ELSE Some(index[CHOOSE x \in below : \A y \in below : StrLeq(y, x)])

Found(v) == [tag |-> "Found", val |-> v]
NotFound == [tag |-> "NotFound"]
Deleted == [tag |-> "Deleted"]
Err == [tag |-> "Err"]

RECURSIVE SearchInBlock(_, _, _)
SearchInBlock(bytes, pos, key) ==
    LET h == ReadEntryHeader(bytes, pos)
    IN IF h.st = "eof" THEN NotFound
       ELSE IF h.st = "err" THEN Err
       ELSE IF h.key = key THEN
         IF h.vw = TOMBSTONE THEN Deleted
         ELSE IF ~CanRead(bytes, h.vpos, FromLE32(h.vw)) THEN Err
         ELSE LET v == Slice(bytes, h.vpos, FromLE32(h.vw))
              IN IF ValidUtf8(v) THEN Found(v) ELSE Err
       ELSE IF StrLess(key, h.key) THEN NotFound
       ELSE SearchInBlock(bytes,
                          IF h.vw = TOMBSTONE THEN h.vpos
                          ELSE SeekCurrent(h.vpos, FromLE32(h.vw)),
                          key)

\* SSTableReader::get
ReaderGet(bytes, index, key) ==
    LET block_offset == IndexFloor(index, key)
    IN IF block_offset.tag = "Some" THEN SearchInBlock(bytes, block_offset.val, key)
       ELSE NotFound

\* the loop of SSTableReader::scan from pos: [ok, results]
RECURSIVE ScanLoop(_, _, _, _, _)
ScanLoop(bytes, pos, start, end, results) ==
    LET h == ReadEntryHeader(bytes, pos)
    IN IF h.st = "eof" THEN [ok |-> TRUE, results |-> results]
       ELSE IF h.st = "err" THEN [ok |-> FALSE, results |-> results]
       ELSE IF StrLeq(start, h.key) /\ StrLeq(h.key, end) THEN
         IF h.vw # TOMBSTONE THEN
           IF ~CanRead(bytes, h.vpos, FromLE32(h.vw)) THEN [ok |-> FALSE, results |-> results]
           ELSE LET v == Slice(bytes, h.vpos, FromLE32(h.vw))
                IN IF ~ValidUtf8(v) THEN [ok |-> FALSE, results |-> results]
                   ELSE ScanLoop(bytes, h.vpos + FromLE32(h.vw), start, end,
                                 Append(results, <<h.key, v>>))
         ELSE ScanLoop(bytes, h.vpos, start, end, results)
       ELSE IF StrLess(end, h.key) THEN [ok |-> TRUE, results |-> results]
       ELSE ScanLoop(bytes,
                     IF h.vw = TOMBSTONE THEN h.vpos
                     ELSE SeekCurrent(h.vpos, FromLE32(h.vw)),
                     start, end, results)

\* SSTableReader::scan
ReaderScan(bytes, index, start, end) ==
    LET off == IndexFloor(index, start)
    IN ScanLoop(bytes, IF off.tag = "Some" THEN off.val ELSE 0, start, end, <<>>)

(***************************************************************************)
(* SSTableIterator (src/src/sstable/reader.rs).  pos is the cursor of the  *)
(* reader's file; invalid stands for end_offset = u64::MAX, and an         *)
(* end_offset of -1 for a footer of 2^31 or more.                          *)
(***************************************************************************)
IntoIter(bytes) ==
    LET len == Len(bytes)
    IN [pos |-> 0, current_offset |-> 0,
        invalid |-> len < 8 \/ Slice(bytes, len - 8, 8) = TOMBSTONE \o TOMBSTONE,
        end_offset |-> IF len < 8 THEN -1 ELSE FromLE64(Slice(bytes, len - 8, 8))]

\* an Ok((key, val)) item
Ok(key, val) == [tag |-> "Ok", key |-> key, val |-> val]

\* SSTableIterator::next: [item, it]; item is None, Some(Err) or Some(Ok(key, val))
IterNext(bytes, it) ==
    IF it.invalid THEN [item |-> None, it |-> it]
    ELSE IF it.end_offset >= 0 /\ it.current_offset >= it.end_offset
    THEN [item |-> None, it |-> it]
    ELSE
      LET h == ReadEntryHeader(bytes, it.pos)
          eof == [it EXCEPT !.pos = Len(bytes)]
      IN IF h.st = "eof" THEN [item |-> None, it |-> eof]
         ELSE IF h.st = "err" THEN [item |-> Some(Err), it |-> eof]
         ELSE IF h.vw = TOMBSTONE THEN
           [item |-> Some(Ok(h.key, None)),
            it |-> [it EXCEPT !.pos = h.vpos, !.current_offset = h.vpos]]
         ELSE IF ~CanRead(bytes, h.vpos, FromLE32(h.vw)) THEN [item |-> Some(Err), it |-> eof]
         ELSE
           LET v == Slice(bytes, h.vpos, FromLE32(h.vw))
               p == h.vpos + FromLE32(h.vw)
           IN IF ~ValidUtf8(v) THEN [item |-> Some(Err), it |-> [it EXCEPT !.pos = p]]
              ELSE [item |-> Some(Ok(h.key, Some(v))),
                    it |-> [it EXCEPT !.pos = p, !.current_offset = p]]

(***************************************************************************)
(* File names.  A name is the byte string of the file name inside the      *)
(* database directory.                                                     *)
(***************************************************************************)
\* "wal.log"
WalName == <<119, 97, 108, 46, 108, 111, 103>>
\* "sstable_"
SstPrefix == <<115, 115, 116, 97, 98, 108, 101, 95>>
\* "sstable_compacted_"
CompactedPrefix == SstPrefix \o <<99, 111, 109, 112, 97, 99, 116, 101, 100, 95>>
\* ".sst"
SstSuffix == <<46, 115, 115, 116>>

\* format!("{}", n) of an unsigned integer
RECURSIVE ToDecimal(_)
ToDecimal(n) ==
    IF n < 10 THEN <<48 + n>> ELSE ToDecimal(n \div 10) \o <<48 + (n % 10)>>

\* format!("sstable_{}.sst", timestamp)
FlushName(timestamp) == SstPrefix \o ToDecimal(timestamp) \o SstSuffix

\* format!("sstable_compacted_{}.sst", timestamp)
CompactedName(timestamp) == CompactedPrefix \o ToDecimal(timestamp) \o SstSuffix

\* Path::extension of a file name: the bytes after the last '.', None when
\* there is no '.' or the only one is the first byte
Extension(name) ==
    LET dots == {i \in 1..Len(name) : name[i] = 46}
    IN IF dots = {} THEN None
       ELSE LET d == CHOOSE i \in dots : \A j \in dots : j <= i
            IN IF d = 1 THEN None ELSE Some(SubSeq(name, d + 1, Len(name)))

\* variant: the test is on the end of the file name
IsSst_Suffix(name) ==
    /\ Len(name) >= 4
    /\ SubSeq(name, Len(name) - 3, Len(name)) = <<46, 115, 115, 116>>

\* ext == "sst"
IsSst(name) == Extension(name) = Some(<<115, 115, 116>>)

\* sstable_files.sort(); sstable_files.reverse()
RECURSIVE SortedDescending(_)
SortedDescending(S) ==
    IF S = {} THEN <<>>
    ELSE LET m == MinStr(S) IN SortedDescending(S \ {m}) \o <<m>>

(***************************************************************************)
(* The state of one database directory and of the Database opened on it.   *)
(***************************************************************************)
VARIABLES
    dir,                   \* file name -> [bytes, synced, created]
    memtable,              \* Database.memtable
    sstables,              \* Database.sstables: readers [path, index], newest first
    compaction_policy,     \* Database.compaction_policy
    last_compaction_time,  \* Database.last_compaction_time
    clock,                 \* what SystemTime::now() reads, in microseconds
    pc,                    \* stack of the steps still to run; <<>> between calls
    call,                  \* the public call in progress and its arguments
    bld,                   \* the SSTableBuilder of the running flush / compaction
    iters,                 \* the peekable iterators of the running compaction
    expected,              \* key -> the latest mutation of the key (Some(v) or None)
    snap,                  \* the Snapshot taken when the last flush / compact / load began
    last_op,               \* the public call that returned last
    nwrites,               \* the writes called so far
    ncrashes               \* the process stops so far

vars == <<dir, memtable, sstables, compaction_policy, last_compaction_time, clock,
          pc, call, bld, iters, expected, snap, last_op, nwrites, ncrashes>>

Disabled == [tag |-> "Disabled"]
Periodic(d) == [tag |-> "Periodic", d |-> d]
\* the duration given to Periodic, in microseconds
PeriodTicks == 1
Policies == {Disabled, Periodic(PeriodTicks)}

\* the batches given to batch_set: empty, one key twice, two keys fed in
\* descending order
Batches == {<<>>,
            <<<<KeyA, Val1>>, <<KeyA, Val2>>>>,
            <<<<KeyAB, Val2>>, <<KeyA, Val1>>>>}

NoCall == [op |-> "none"]
NoBuilder == [path |-> <<>>]
FileBytes(name) == dir[name].bytes
wal == FileBytes(WalName)

\* a file as File::create / OpenOptions leaves it
WriteFile(d, name, bytes, synced) ==
    [x \in (DOMAIN d) \cup {name} |->
        IF x = name
        THEN [bytes |-> bytes, synced |-> synced,
              created |-> IF name \in DOMAIN d THEN d[name].created ELSE clock]
        ELSE d[x]]

RemoveFile(d, name) == [x \in (DOMAIN d) \ {name} |-> d[x]]

(***************************************************************************)
(* Reads (src/src/database.rs).                                            *)
(***************************************************************************)
\* variant: a Deleted result is treated like NotFound
RECURSIVE GetFromTables_PastTombstone(_, _, _, _)
GetFromTables_PastTombstone(d, tables, i, key) ==
    IF i > Len(tables) THEN None
    ELSE LET r == ReaderGet(d[tables[i].path].bytes, tables[i].index, key)
         IN IF r.tag = "Found" THEN Some(r.val)
            ELSE GetFromTables_PastTombstone(d, tables, i + 1, key)

\* variant: a reader error ends the walk
RECURSIVE GetFromTables_StopOnErr(_, _, _, _)
GetFromTables_StopOnErr(d, tables, i, key) ==
    IF i > Len(tables) THEN None
    ELSE LET r == ReaderGet(d[tables[i].path].bytes, tables[i].index, key)
         IN IF r.tag = "Found" THEN Some(r.val)
            ELSE IF r.tag \in {"Deleted", "Err"} THEN None
            ELSE GetFromTables_StopOnErr(d, tables, i + 1, key)

\* the walk over self.sstables in Database::get, from reader i on
RECURSIVE GetFromTables(_, _, _, _)
GetFromTables(d, tables, i, key) ==
    IF i > Len(tables) THEN None
    ELSE LET r == ReaderGet(d[tables[i].path].bytes, tables[i].index, key)
         IN IF r.tag = "Found" THEN Some(r.val)
            ELSE IF r.tag = "Deleted" THEN None
            ELSE GetFromTables(d, tables, i + 1, key)

\* Database::get on a database with these fields
GetIn(d, mt, tables, key) ==
    LET m == MemTableGet(mt, key)
    IN IF m.tag = "Some" THEN m.val ELSE GetFromTables(d, tables, 1, key)

Get(key) == GetIn(dir, memtable, sstables, key)

\* for (k, v) in entries { map.insert(k, Some(v)) }
RECURSIVE InsertAll(_, _)
InsertAll(map, entries) ==
    IF entries = <<>> THEN map
    ELSE InsertAll(MapInsert(map, Head(entries)[1], Some(Head(entries)[2])), Tail(entries))

\* the U+10FFFF that get_by_prefix appends to the prefix
MaxChar == <<244, 143, 191, 191>>

\* step 1 of get_by_prefix: the tables from the oldest (i = Len) to the newest
RECURSIVE PrefixFromTables(_, _, _)
PrefixFromTables(map, i, prefix) ==
    IF i < 1 THEN map
    ELSE LET r == ReaderScan(FileBytes(sstables[i].path), sstables[i].index,
                             prefix, prefix \o MaxChar)
         IN PrefixFromTables(IF r.ok THEN InsertAll(map, r.results) ELSE map,
                             i - 1, prefix)

\* step 2 of get_by_prefix: the memtable's entries that start with the prefix
PrefixFromMemtable(map, prefix) ==
    LET ks == {k \in DOMAIN memtable.map : StartsWith(k, prefix)}
    IN [x \in (DOMAIN map) \cup ks |-> IF x \in ks THEN memtable.map[x] ELSE map[x]]

\* map.into_values().flatten().collect()
RECURSIVE FlattenValues(_, _)
FlattenValues(map, ks) ==
    IF ks = <<>> THEN <<>>
    ELSE (IF map[Head(ks)].tag = "Some" THEN <<map[Head(ks)].val>> ELSE <<>>)
         \o FlattenValues(map, Tail(ks))

\* Database::get_by_prefix
GetByPrefix(prefix) ==
    LET map == PrefixFromMemtable(PrefixFromTables(<<>>, Len(sstables), prefix), prefix)
    IN FlattenValues(map, SortedSeq(DOMAIN map))

(***************************************************************************)
(* Database::new and Database::load.                                       *)
(***************************************************************************)
\* Database::new(path) for a path that does not exist yet
Init ==
    /\ dir = [x \in {WalName} |-> [bytes |-> <<>>, synced |-> TRUE, created |-> ClockStart]]
    /\ memtable = MemTableNew
    /\ sstables = <<>>
    /\ compaction_policy = Disabled
    /\ last_compaction_time = ClockStart
    /\ clock = ClockStart
    /\ pc = <<>>
    /\ call = NoCall
    /\ bld = NoBuilder
    /\ iters = <<>>
    /\ expected = [k \in Keys |-> None]
    /\ snap = [get |-> [k \in Keys |-> None], tables |-> 0, memlen |-> 0,
               memtable |-> MemTableNew, sstables |-> <<>>, wal |-> <<>>,
               files |-> {WalName}]
    /\ last_op = "new"
    /\ nwrites = 0
    /\ ncrashes = 0

\* the readers load opens: one per *.sst file, by descending path
LoadReaders(d) ==
    LET files == SortedDescending({n \in DOMAIN d : IsSst(n)})
    IN [i \in 1..Len(files) |->
          [path |-> files[i], index |-> ReaderNew(d[files[i]].bytes).index,
           ok |-> ReaderNew(d[files[i]].bytes).ok]]

\* the engine as it is when a flush, a compact or a drop begins: get(k) of
\* every key, the number of sealed tables and of memtable entries, the
\* memtable, the table list, the WAL contents and the files of the directory
Snapshot ==
    [get |-> [k \in Keys |-> Get(k)], tables |-> Len(sstables),
     memlen |-> MemTableLen(memtable), memtable |-> memtable, sstables |-> sstables,
     wal |-> wal, files |-> DOMAIN dir]

\* drop(db) in a quiescent state, then Database::load on the same directory
Reopen ==
    /\ pc = <<>>
    /\ LET replay == WalReplay(wal, 0, MemTableNew)
           readers == LoadReaders(dir)
           ok == replay.ok /\ \A i \in 1..Len(readers) : readers[i].ok
       IN /\ memtable' = IF ok THEN replay.memtable ELSE MemTableNew
          /\ sstables' = IF ok THEN [i \in 1..Len(readers) |->
                                       [path |-> readers[i].path, index |-> readers[i].index]]
                         ELSE <<>>
          /\ pc' = IF ok THEN <<>> ELSE <<"load_failed">>
    /\ compaction_policy' = Disabled
    /\ last_compaction_time' = clock
    /\ snap' = Snapshot
    /\ last_op' = "load"
    /\ UNCHANGED <<dir, clock, call, bld, iters, expected, nwrites, ncrashes>>

SetCompactionPolicy(policy) ==
    /\ pc = <<>>
    /\ compaction_policy # policy
    /\ compaction_policy' = policy
    /\ last_op' = "set_compaction_policy"
    /\ UNCHANGED <<dir, memtable, sstables, last_compaction_time, clock, pc, call, bld,
                   iters, expected, snap, nwrites, ncrashes>>

(***************************************************************************)
(* Writes: set, del, batch_set.  The first step of each is the WAL write   *)
(* and its sync_data.                                                      *)
(***************************************************************************)
\* a write may run a periodic compaction, which creates up to two tables
WriteAllowed ==
    /\ pc = <<>>
    /\ nwrites < MaxWrites
    /\ compaction_policy.tag = "Periodic" => clock + 2 <= ClockStart + MaxClock

\* variant: the record is not written
WalAppend_Skipped(bytes) == dir

WalAppend(bytes) == WriteFile(dir, WalName, wal \o bytes, TRUE)

\* expected after the entries of a batch, in list order
RECURSIVE ExpectAll(_, _)
ExpectAll(e, entries) ==
    IF entries = <<>> THEN e
    ELSE ExpectAll([e EXCEPT ![Head(entries)[1]] = Some(Head(entries)[2])], Tail(entries))

SetWal(key, value) ==
    /\ WriteAllowed
    /\ dir' = WalAppend(WalSetRecord(key, value))
    /\ call' = [op |-> "set", key |-> key, value |-> value]
    /\ expected' = [expected EXCEPT ![key] = Some(value)]
    /\ pc' = <<"w_mem">>
    /\ nwrites' = nwrites + 1
    /\ UNCHANGED <<memtable, sstables, compaction_policy, last_compaction_time, clock,
                   bld, iters, snap, last_op, ncrashes>>

DelWal(key) ==
    /\ WriteAllowed
    /\ dir' = WalAppend(WalDelRecord(key))
    /\ call' = [op |-> "del", key |-> key]
    /\ expected' = [expected EXCEPT ![key] = None]
    /\ pc' = <<"w_mem">>
    /\ nwrites' = nwrites + 1
    /\ UNCHANGED <<memtable, sstables, compaction_policy, last_compaction_time, clock,
                   bld, iters, snap, last_op, ncrashes>>

BatchSetWal(entries) ==
    /\ WriteAllowed
    /\ dir' = WalAppend(WalBatchRecords(entries))
    /\ call' = [op |-> "batch_set", entries |-> entries]
    /\ expected' = ExpectAll(expected, entries)
    /\ pc' = <<"w_mem">>
    /\ nwrites' = nwrites + 1
    /\ UNCHANGED <<memtable, sstables, compaction_policy, last_compaction_time, clock,
                   bld, iters, snap, last_op, ncrashes>>

\* variant: the entries are inserted from the last to the first
RECURSIVE MemTableSetAll_Reversed(_, _)
MemTableSetAll_Reversed(mt, entries) ==
    IF entries = <<>> THEN mt
    ELSE MemTableSet(MemTableSetAll_Reversed(mt, Tail(entries)),
                     Head(entries)[1], Head(entries)[2])

\* for (key, value) in entries { self.memtable.set(key, value) }
RECURSIVE MemTableSetAll(_, _)
MemTableSetAll(mt, entries) ==
    IF entries = <<>> THEN mt
    ELSE MemTableSetAll(MemTableSet(mt, Head(entries)[1], Head(entries)[2]), Tail(entries))

\* the memtable after the call's mutation
MemTableApply(mt, c) ==
    IF c.op = "set" THEN MemTableSet(mt, c.key, c.value)
    ELSE IF c.op = "del" THEN MemTableDel(mt, c.key)
    ELSE MemTableSetAll(mt, c.entries)

\* variant: every write flushes, whatever size_bytes is
WriteMem_AlwaysFlushes ==
    /\ pc # <<>> /\ Head(pc) = "w_mem"
    /\ memtable' = MemTableApply(memtable, call)
    /\ pc' = <<"f_begin", "w_trigger">>
    /\ UNCHANGED <<dir, sstables, compaction_policy, last_compaction_time, clock, call,
                   bld, iters, expected, snap, last_op, nwrites, ncrashes>>

\* the memtable mutation and the threshold test that follows it
WriteMem ==
    /\ pc # <<>> /\ Head(pc) = "w_mem"
    /\ memtable' = MemTableApply(memtable, call)
    /\ pc' = IF memtable'.size_bytes >= MEMTABLE_THRESHOLD
             THEN <<"f_begin", "w_trigger">> ELSE <<"w_trigger">>
    /\ UNCHANGED <<dir, sstables, compaction_policy, last_compaction_time, clock, call,
                   bld, iters, expected, snap, last_op, nwrites, ncrashes>>

\* the call returns: the step that empties the stack ends the public call
Return(rest) ==
    /\ pc' = rest
    /\ call' = IF rest = <<>> THEN NoCall ELSE call
    /\ last_op' = IF rest = <<>> THEN call.op ELSE last_op

\* variant: the elapsed time is not tested
WriteTrigger_NoElapsedTest ==
    /\ pc # <<>> /\ Head(pc) = "w_trigger"
    /\ IF compaction_policy.tag = "Disabled"
       THEN /\ Return(Tail(pc))
            /\ UNCHANGED snap
       ELSE /\ pc' = <<"f_begin", "c_start">> \o Tail(pc)
            /\ snap' = Snapshot
            /\ UNCHANGED <<call, last_op>>
    /\ UNCHANGED <<dir, memtable, sstables, compaction_policy, last_compaction_time,
                   clock, bld, iters, expected, nwrites, ncrashes>>

\* try_trigger_compaction, the last statement of every write
WriteTrigger ==
    /\ pc # <<>> /\ Head(pc) = "w_trigger"
    /\ IF compaction_policy.tag = "Disabled"
       THEN /\ Return(Tail(pc))
            /\ UNCHANGED snap
       ELSE IF clock - last_compaction_time >= compaction_policy.d
            THEN /\ pc' = <<"f_begin", "c_start">> \o Tail(pc)
                 /\ snap' = Snapshot
                 /\ UNCHANGED <<call, last_op>>
            ELSE /\ Return(Tail(pc))
                 /\ UNCHANGED snap
    /\ UNCHANGED <<dir, memtable, sstables, compaction_policy, last_compaction_time,
                   clock, bld, iters, expected, nwrites, ncrashes>>

(***************************************************************************)
(* flush and flush_memtable.                                               *)
(***************************************************************************)
Flush ==
    /\ pc = <<>>
    /\ MemTableLen(memtable) = 0 \/ clock < ClockStart + MaxClock
    /\ call' = [op |-> "flush"]
    /\ snap' = Snapshot
    /\ pc' = <<"f_begin">>
    /\ UNCHANGED <<dir, memtable, sstables, compaction_policy, last_compaction_time,
                   clock, bld, iters, expected, last_op, nwrites, ncrashes>>

\* variant: no test for an empty memtable
FlushBegin_NoEmptyTest ==
    /\ pc # <<>> /\ Head(pc) = "f_begin"
    /\ bld' = [path |-> FlushName(clock), b |-> BuilderNew,
               todo |-> MemTableIter(memtable), src |-> MemTableIter(memtable)]
    /\ dir' = WriteFile(dir, FlushName(clock), <<>>, FALSE)
    /\ clock' = clock + 1
    /\ pc' = <<"f_build">> \o Tail(pc)
    /\ UNCHANGED <<call, last_op>>
    /\ UNCHANGED <<memtable, sstables, compaction_policy, last_compaction_time, iters,
                   expected, snap, nwrites, ncrashes>>

\* variant: the WAL is truncated when the flush begins
FlushBegin_ClearsWal ==
    /\ pc # <<>> /\ Head(pc) = "f_begin"
    /\ IF MemTableLen(memtable) = 0
       THEN /\ Return(Tail(pc))
            /\ UNCHANGED <<dir, clock, bld>>
       ELSE /\ bld' = [path |-> FlushName(clock), b |-> BuilderNew,
                       todo |-> MemTableIter(memtable), src |-> MemTableIter(memtable)]
            /\ dir' = WriteFile(WriteFile(dir, FlushName(clock), <<>>, FALSE),
                                WalName, <<>>, FALSE)
            /\ clock' = clock + 1
            /\ pc' = <<"f_build">> \o Tail(pc)
            /\ UNCHANGED <<call, last_op>>
    /\ UNCHANGED <<memtable, sstables, compaction_policy, last_compaction_time, iters,
                   expected, snap, nwrites, ncrashes>>

\* the empty test, the timestamp and SSTableBuilder::new
FlushBegin ==
    /\ pc # <<>> /\ Head(pc) = "f_begin"
    /\ IF MemTableLen(memtable) = 0
       THEN /\ Return(Tail(pc))
            /\ UNCHANGED <<dir, clock, bld>>
       ELSE /\ bld' = [path |-> FlushName(clock), b |-> BuilderNew,
                       todo |-> MemTableIter(memtable), src |-> MemTableIter(memtable)]
            /\ dir' = WriteFile(dir, FlushName(clock), <<>>, FALSE)
            /\ clock' = clock + 1
            /\ pc' = <<"f_build">> \o Tail(pc)
            /\ UNCHANGED <<call, last_op>>
    /\ UNCHANGED <<memtable, sstables, compaction_policy, last_compaction_time, iters,
                   expected, snap, nwrites, ncrashes>>

\* variant: a tombstone of the memtable is not written to the table
FlushAdd_DropsTombstones ==
    /\ pc # <<>> /\ Head(pc) = "f_build"
    /\ bld.todo # <<>>
    /\ LET key == Head(bld.todo)[1]
           val_opt == Head(bld.todo)[2]
           b1 == IF val_opt.tag = "Some" THEN BuilderAdd(bld.b, key, val_opt.val)
                 ELSE bld.b
       IN /\ bld' = [bld EXCEPT !.b = b1, !.todo = Tail(bld.todo)]
          /\ dir' = WriteFile(dir, bld.path, b1.file, FALSE)
    /\ UNCHANGED <<memtable, sstables, compaction_policy, last_compaction_time, clock, pc,
                   call, iters, expected, snap, last_op, nwrites, ncrashes>>

\* one turn of the loop over memtable.iter(): builder.add or builder.delete
FlushAdd ==
    /\ pc # <<>> /\ Head(pc) = "f_build"
    /\ bld.todo # <<>>
    /\ LET key == Head(bld.todo)[1]
           val_opt == Head(bld.todo)[2]
           b1 == IF val_opt.tag = "Some" THEN BuilderAdd(bld.b, key, val_opt.val)
                 ELSE BuilderDelete(bld.b, key)
       IN /\ bld' = [bld EXCEPT !.b = b1, !.todo = Tail(bld.todo)]
          /\ dir' = WriteFile(dir, bld.path, b1.file, FALSE)
    /\ UNCHANGED <<memtable, sstables, compaction_policy, last_compaction_time, clock, pc,
                   call, iters, expected, snap, last_op, nwrites, ncrashes>>

\* variant: finish without sync_all
FlushFinish_NoSync ==
    /\ pc # <<>> /\ Head(pc) = "f_build"
    /\ bld.todo = <<>>
    /\ dir' = WriteFile(dir, bld.path, BuilderFinish(bld.b), FALSE)
    /\ pc' = <<"f_register">> \o Tail(pc)
    /\ UNCHANGED <<memtable, sstables, compaction_policy, last_compaction_time, clock,
                   call, bld, iters, expected, snap, last_op, nwrites, ncrashes>>

\* builder.finish(): last block, index, footer, sync_all
FlushFinish ==
    /\ pc # <<>> /\ Head(pc) = "f_build"
    /\ bld.todo = <<>>
    /\ dir' = WriteFile(dir, bld.path, BuilderFinish(bld.b), TRUE)
    /\ pc' = <<"f_register">> \o Tail(pc)
    /\ UNCHANGED <<memtable, sstables, compaction_policy, last_compaction_time, clock,
                   call, bld, iters, expected, snap, last_op, nwrites, ncrashes>>

\* variant: the new reader is pushed to the back of the list
FlushRegister_Back ==
    /\ pc # <<>> /\ Head(pc) = "f_register"
    /\ LET r == ReaderNew(FileBytes(bld.path))
       IN IF r.ok
          THEN /\ sstables' = sstables \o <<[path |-> bld.path, index |-> r.index]>>
               /\ pc' = <<"f_clear_mem">> \o Tail(pc)
          ELSE /\ sstables' = sstables
               /\ pc' = <<"failed">>
    /\ UNCHANGED <<dir, memtable, compaction_policy, last_compaction_time, clock, call,
                   bld, iters, expected, snap, last_op, nwrites, ncrashes>>

\* self.sstables.insert(0, SSTableReader::new(sst_path)?)
FlushRegister ==
    /\ pc # <<>> /\ Head(pc) = "f_register"
    /\ LET r == ReaderNew(FileBytes(bld.path))
       IN IF r.ok
          THEN /\ sstables' = <<[path |-> bld.path, index |-> r.index]>> \o sstables
               /\ pc' = <<"f_clear_mem">> \o Tail(pc)
          ELSE /\ sstables' = sstables
               /\ pc' = <<"failed">>
    /\ UNCHANGED <<dir, memtable, compaction_policy, last_compaction_time, clock, call,
                   bld, iters, expected, snap, last_op, nwrites, ncrashes>>

\* self.memtable.clear()
FlushClearMem ==
    /\ pc # <<>> /\ Head(pc) = "f_clear_mem"
    /\ memtable' = MemTableClear(memtable)
    /\ pc' = <<"f_clear_wal">> \o Tail(pc)
    /\ UNCHANGED <<dir, sstables, compaction_policy, last_compaction_time, clock, call,
                   bld, iters, expected, snap, last_op, nwrites, ncrashes>>

\* self.wal.clear()
FlushClearWal ==
    /\ pc # <<>> /\ Head(pc) = "f_clear_wal"
    /\ dir' = WriteFile(dir, WalName, <<>>, FALSE)
    /\ bld' = NoBuilder
    /\ Return(Tail(pc))
    /\ UNCHANGED <<memtable, sstables, compaction_policy, last_compaction_time, clock,
                   iters, expected, snap, nwrites, ncrashes>>

(***************************************************************************)
(* compact.                                                                *)
(***************************************************************************)
\* the tables a compact call creates: one by its flush, one by the merge
TablesNeeded ==
    (IF MemTableLen(memtable) > 0 THEN 1 ELSE 0)
    + (IF MemTableLen(memtable) > 0 \/ sstables # <<>> THEN 1 ELSE 0)

Compact ==
    /\ pc = <<>>
    /\ clock + TablesNeeded <= ClockStart + MaxClock
    /\ call' = [op |-> "compact"]
    /\ snap' = Snapshot
    /\ pc' = <<"f_begin", "c_start">>
    /\ UNCHANGED <<dir, memtable, sstables, compaction_policy, last_compaction_time,
                   clock, bld, iters, expected, last_op, nwrites, ncrashes>>

\* the empty test, mem::take, into_iter().peekable(), the timestamp and
\* SSTableBuilder::new
CompactStart ==
    /\ pc # <<>> /\ Head(pc) = "c_start"
    /\ IF sstables = <<>>
       THEN /\ Return(Tail(pc))
            /\ UNCHANGED <<dir, sstables, clock, bld, iters>>
       ELSE /\ iters' = [i \in 1..Len(sstables) |->
                           [path |-> sstables[i].path,
                            it |-> IntoIter(FileBytes(sstables[i].path)),
                            peeked |-> None]]
            /\ sstables' = <<>>
            /\ bld' = [path |-> CompactedName(clock), b |-> BuilderNew,
                       todo |-> <<>>, src |-> <<>>]
            /\ dir' = WriteFile(dir, CompactedName(clock), <<>>, FALSE)
            /\ clock' = clock + 1
            /\ pc' = <<"c_merge">> \o Tail(pc)
            /\ UNCHANGED <<call, last_op>>
    /\ UNCHANGED <<memtable, compaction_policy, last_compaction_time, expected, snap,
                   nwrites, ncrashes>>

\* Peekable::peek: fills peeked from the iterator unless it is filled
Peek(itr) ==
    IF itr.peeked.tag = "Some" THEN itr
    ELSE LET r == IterNext(FileBytes(itr.path), itr.it)
         IN [itr EXCEPT !.it = r.it, !.peeked = Some(r.item)]

\* if let Some(Ok((key, _))) = iter.peek()
PeekedOk(itr) == itr.peeked.val.tag = "Some" /\ itr.peeked.val.val.tag = "Ok"
PeekedKey(itr) == itr.peeked.val.val.key

\* variant: key <= mk in the selection, so the oldest table wins a tie
RECURSIVE BestIdx_LastWins(_, _, _)
BestIdx_LastWins(its, i, best) ==
    IF i > Len(its) THEN best
    ELSE IF PeekedOk(its[i]) /\ (best = 0 \/ StrLeq(PeekedKey(its[i]), PeekedKey(its[best])))
         THEN BestIdx_LastWins(its, i + 1, i)
         ELSE BestIdx_LastWins(its, i + 1, best)

\* the selection loop over the peeked iterators from i on; best is best_idx
\* so far (0 for None)
RECURSIVE BestIdx(_, _, _)
BestIdx(its, i, best) ==
    IF i > Len(its) THEN best
    ELSE IF PeekedOk(its[i]) /\ (best = 0 \/ StrLess(PeekedKey(its[i]), PeekedKey(its[best])))
         THEN BestIdx(its, i + 1, i)
         ELSE BestIdx(its, i + 1, best)

\* one turn of the merge loop that selects an iterator
\* variant: the selected entry is added to the output and its iterator is
\* not advanced
MergeStep_NoAdvance ==
    /\ pc # <<>> /\ Head(pc) = "c_merge"
    /\ \E ps \in {[i \in 1..Len(iters) |-> Peek(iters[i])]} :
       \E idx \in {BestIdx(ps, 1, 0)} :
          /\ idx # 0
          /\ \E key \in {PeekedKey(ps[idx])}, val \in {ps[idx].peeked.val.val.val} :
             \E b1 \in {IF val.tag = "Some" THEN BuilderAdd(bld.b, key, val.val)
                         ELSE bld.b} :
                /\ bld' = [bld EXCEPT !.b = b1]
                /\ dir' = WriteFile(dir, bld.path, b1.file, FALSE)
                /\ iters' = ps
    /\ UNCHANGED <<memtable, sstables, compaction_policy, last_compaction_time, clock, pc,
                   call, expected, snap, last_op, nwrites, ncrashes>>

MergeStep ==
    /\ pc # <<>> /\ Head(pc) = "c_merge"
    /\ \E ps \in {[i \in 1..Len(iters) |-> Peek(iters[i])]} :
       \E idx \in {BestIdx(ps, 1, 0)} :
          /\ idx # 0
          /\ \E key \in {PeekedKey(ps[idx])}, val \in {ps[idx].peeked.val.val.val} :
             \E b1 \in {IF val.tag = "Some" THEN BuilderAdd(bld.b, key, val.val)
                         ELSE bld.b} :
                /\ bld' = [bld EXCEPT !.b = b1]
                /\ dir' = WriteFile(dir, bld.path, b1.file, FALSE)
                /\ iters' = [i \in 1..Len(ps) |->
                               IF i = idx \/ (PeekedOk(ps[i]) /\ PeekedKey(ps[i]) = key)
                               THEN [ps[i] EXCEPT !.peeked = None]
                               ELSE ps[i]]
    /\ UNCHANGED <<memtable, sstables, compaction_policy, last_compaction_time, clock, pc,
                   call, expected, snap, last_op, nwrites, ncrashes>>

\* the turn that selects nothing (break), then builder.finish()
CompactFinish ==
    /\ pc # <<>> /\ Head(pc) = "c_merge"
    /\ LET ps == [i \in 1..Len(iters) |-> Peek(iters[i])]
       IN /\ BestIdx(ps, 1, 0) = 0
          /\ iters' = ps
    /\ dir' = WriteFile(dir, bld.path, BuilderFinish(bld.b), TRUE)
    /\ pc' = <<"c_delete">> \o Tail(pc)
    /\ UNCHANGED <<memtable, sstables, compaction_policy, last_compaction_time, clock,
                   call, bld, expected, snap, last_op, nwrites, ncrashes>>

\* the files the deletion loop still has to remove
ToDelete == {n \in DOMAIN dir : IsSst(n) /\ n # bld.path}

\* variant: the deletion loop runs while the merge is still writing
CompactDelete_Early(name) ==
    /\ pc # <<>> /\ Head(pc) = "c_merge"
    /\ name \in ToDelete
    /\ dir' = RemoveFile(dir, name)
    /\ UNCHANGED <<memtable, sstables, compaction_policy, last_compaction_time, clock, pc,
                   call, bld, iters, expected, snap, last_op, nwrites, ncrashes>>

\* fs::remove_file of one entry of read_dir, which lists in no given order
CompactDelete(name) ==
    /\ pc # <<>> /\ Head(pc) = "c_delete"
    /\ name \in ToDelete
    /\ dir' = RemoveFile(dir, name)
    /\ UNCHANGED <<memtable, sstables, compaction_policy, last_compaction_time, clock, pc,
                   call, bld, iters, expected, snap, last_op, nwrites, ncrashes>>

\* variant: the reader is installed without the deletion loop having run
CompactInstall_NoDelete ==
    /\ pc # <<>> /\ Head(pc) = "c_delete"
    /\ LET r == ReaderNew(FileBytes(bld.path))
       IN IF r.ok
          THEN /\ sstables' = <<[path |-> bld.path, index |-> r.index]>>
               /\ last_compaction_time' = clock
               /\ Return(Tail(pc))
          ELSE /\ pc' = <<"failed">>
               /\ UNCHANGED <<sstables, last_compaction_time, call, last_op>>
    /\ iters' = <<>>
    /\ bld' = NoBuilder
    /\ UNCHANGED <<dir, memtable, clock, compaction_policy, expected, snap, nwrites, ncrashes>>

\* self.sstables = vec![SSTableReader::new(new_sst_path)?] and the timestamp
CompactInstall ==
    /\ pc # <<>> /\ Head(pc) = "c_delete"
    /\ ToDelete = {}
    /\ LET r == ReaderNew(FileBytes(bld.path))
       IN IF r.ok
          THEN /\ sstables' = <<[path |-> bld.path, index |-> r.index]>>
               /\ last_compaction_time' = clock
               /\ Return(Tail(pc))
          ELSE /\ pc' = <<"failed">>
               /\ UNCHANGED <<sstables, last_compaction_time, call, last_op>>
    /\ iters' = <<>>
    /\ bld' = NoBuilder
    /\ UNCHANGED <<dir, memtable, clock, compaction_policy, expected, snap, nwrites, ncrashes>>

\* the calls on one open Database and their steps
NextOpen ==
    \/ \E k \in Keys, v \in Values : SetWal(k, v)
    \/ \E k \in Keys : DelWal(k)
    \/ \E es \in Batches : BatchSetWal(es)
    \/ WriteMem
    \/ WriteTrigger
    \/ Flush
    \/ FlushBegin
    \/ FlushAdd
    \/ FlushFinish
    \/ FlushRegister
    \/ FlushClearMem
    \/ FlushClearWal
    \/ Compact
    \/ CompactStart
    \/ MergeStep
    \/ CompactFinish
    \/ \E n \in DOMAIN dir : CompactDelete(n)
    \/ CompactInstall

\* one Database from new on, its compaction policy left Disabled
SpecOpen == Init /\ [][NextOpen]_vars

Next ==
    \/ NextOpen
    \/ Reopen

\* the same, and the Database may be dropped and loaded again between calls
Spec == Init /\ [][Next]_vars

\* time passes between two calls
Tick ==
    /\ pc = <<>>
    /\ clock < ClockStart + MaxClock
    /\ clock' = clock + 1
    /\ UNCHANGED <<dir, memtable, sstables, compaction_policy, last_compaction_time, pc,
                   call, bld, iters, expected, snap, last_op, nwrites, ncrashes>>

NextPolicy ==
    \/ Next
    \/ \E p \in Policies : SetCompactionPolicy(p)
    \/ Tick

\* the same calls and set_compaction_policy
SpecPolicy == Init /\ [][NextPolicy]_vars

(***************************************************************************)
(* I/O errors while a table is built.  SSTableBuilder::new, add, delete    *)
(* and finish return Err when File::create, write_all or sync_all fail;    *)
(* flush_memtable and compact pass the error on with `?`.  compact()       *)
(* returns it to the caller; flush() and the writes panic on it (expect).  *)
(***************************************************************************)
\* where an Err of the running call ends: back at the caller of compact(),
\* or in the panic of flush() / set() / del() / batch_set()
ErrorReturn == IF call.op = "compact" THEN <<>> ELSE <<"panicked">>

\* what the table file can hold when builder.finish() fails: nothing new, or
\* the last block without index and footer
FailedFinishFiles(b) == {b.file, FlushBlock(b).file}

\* flush_memtable returns Err from SSTableBuilder::new (f_begin), from
\* builder.add / builder.delete or from builder.finish (f_build)
FlushFail ==
    /\ pc # <<>>
    /\ \/ /\ Head(pc) = "f_begin" /\ MemTableLen(memtable) > 0
          /\ dir' = dir
       \/ /\ Head(pc) = "f_build"
          /\ \E bytes \in FailedFinishFiles(bld.b) :
                dir' = WriteFile(dir, bld.path, bytes, FALSE)
    /\ pc' = ErrorReturn
    /\ call' = NoCall
    /\ bld' = NoBuilder
    /\ last_op' = "flush_err"
    /\ UNCHANGED <<memtable, sstables, compaction_policy, last_compaction_time, clock,
                   iters, expected, snap, nwrites, ncrashes>>

\* compact returns Err from SSTableBuilder::new (c_start, after mem::take),
\* from builder.add or from builder.finish (c_merge)
CompactFail ==
    /\ pc # <<>>
    /\ \/ /\ Head(pc) = "c_start" /\ sstables # <<>>
          /\ dir' = dir
       \/ /\ Head(pc) = "c_merge"
          /\ \E bytes \in FailedFinishFiles(bld.b) :
                dir' = WriteFile(dir, bld.path, bytes, FALSE)
    /\ sstables' = <<>>
    /\ pc' = ErrorReturn
    /\ call' = NoCall
    /\ bld' = NoBuilder
    /\ iters' = <<>>
    /\ last_op' = "compact_err"
    /\ UNCHANGED <<memtable, compaction_policy, last_compaction_time, clock, expected,
                   snap, nwrites, ncrashes>>

NextErr == NextOpen \/ FlushFail \/ CompactFail
SpecErr == Init /\ [][NextErr]_vars

(***************************************************************************)
(* Process stops.  The directory keeps what write_all, set_len and         *)
(* remove_file have done; the fields of the Database are lost; the next    *)
(* process calls Database::load on the directory.                          *)
(***************************************************************************)
\* the process stops between two calls or inside a call, at the step pc
\* names, then load
Crash ==
    /\ IF pc = <<>> THEN TRUE ELSE Head(pc) \notin {"failed", "load_failed"}
    /\ ncrashes < MaxCrashes
    /\ ncrashes' = ncrashes + 1
    /\ LET replay == WalReplay(wal, 0, MemTableNew)
           readers == LoadReaders(dir)
           ok == replay.ok /\ \A i \in 1..Len(readers) : readers[i].ok
       IN /\ memtable' = IF ok THEN replay.memtable ELSE MemTableNew
          /\ sstables' = IF ok THEN [i \in 1..Len(readers) |->
                                       [path |-> readers[i].path, index |-> readers[i].index]]
                         ELSE <<>>
          /\ pc' = IF ok THEN <<>> ELSE <<"load_failed">>
    /\ compaction_policy' = Disabled
    /\ last_compaction_time' = clock
    /\ call' = NoCall
    /\ bld' = NoBuilder
    /\ iters' = <<>>
    /\ last_op' = IF pc = <<>> THEN "crash between calls" ELSE "crash in " \o Head(pc)
    /\ UNCHANGED <<dir, clock, expected, snap, nwrites>>

\* the table file compact() writes for the single entry ("a", "1")
CompactedFile == BuilderFinish(BuilderAdd(BuilderNew, KeyA, Val1))

\* Database::load on the directory an earlier process left after
\* new(); set("a", "1"); compact(): an empty WAL and one compacted table
InitLoaded ==
    /\ dir = (WalName :> [bytes |-> <<>>, synced |-> FALSE, created |-> ClockStart - 2])
             @@ (CompactedName(ClockStart - 1) :>
                   [bytes |-> CompactedFile, synced |-> TRUE, created |-> ClockStart - 1])
    /\ memtable = MemTableNew
    /\ sstables = <<[path |-> CompactedName(ClockStart - 1),
                     index |-> ReaderNew(CompactedFile).index]>>
    /\ compaction_policy = Disabled
    /\ last_compaction_time = ClockStart
    /\ clock = ClockStart
    /\ pc = <<>>
    /\ call = NoCall
    /\ bld = NoBuilder
    /\ iters = <<>>
    /\ expected = [k \in Keys |-> IF k = KeyA THEN Some(Val1) ELSE None]
    /\ snap = [get |-> [k \in Keys |-> IF k = KeyA THEN Some(Val1) ELSE None],
               tables |-> 1, memlen |-> 0, memtable |-> MemTableNew,
               sstables |-> <<[path |-> CompactedName(ClockStart - 1),
                               index |-> ReaderNew(CompactedFile).index]>>,
               wal |-> <<>>, files |-> {WalName, CompactedName(ClockStart - 1)}]
    /\ last_op = "load"
    /\ nwrites = 0
    /\ ncrashes = 0

InitCrash == Init \/ InitLoaded
NextCrash == NextOpen \/ Crash
SpecCrash == InitCrash /\ [][NextCrash]_vars

(***************************************************************************)
(* Database::load on a directory whose WAL file is given: well-formed      *)
(* records, then nothing or a malformed record.                            *)
(***************************************************************************)
\* the mutations a WAL record can stand for
Mutations ==
    {[op |-> "set", key |-> k, value |-> v] : k \in Keys, v \in Values}
    \cup {[op |-> "del", key |-> k] : k \in Keys}

\* the sequences of mutations of length n
RECURSIVE MutationSeqs(_)
MutationSeqs(n) ==
    IF n = 0 THEN {<<>>}
    ELSE {Append(ms, m) : ms \in MutationSeqs(n - 1), m \in Mutations}

\* the record WAL::set / WAL::del writes for a mutation
WalRecord(m) ==
    IF m.op = "set" THEN WalSetRecord(m.key, m.value) ELSE WalDelRecord(m.key)

RECURSIVE WalRecordsOf(_)
WalRecordsOf(ms) ==
    IF ms = <<>> THEN <<>> ELSE WalRecord(Head(ms)) \o WalRecordsOf(Tail(ms))

\* the memtable after the mutations, applied in order
RECURSIVE MemTableAfter(_, _)
MemTableAfter(mt, ms) ==
    IF ms = <<>> THEN mt ELSE MemTableAfter(MemTableApply(mt, Head(ms)), Tail(ms))

\* a record cut short by the end of the file
TruncatedRecords ==
    {SubSeq(WalSetRecord(KeyA, Val1), 1, n) : n \in 1..(Len(WalSetRecord(KeyA, Val1)) - 1)}
    \cup {SubSeq(WalDelRecord(KeyAB), 1, n) : n \in 1..(Len(WalDelRecord(KeyAB)) - 1)}

\* a record with an opcode that is neither OP_SET nor OP_DEL
UnknownOpcodeRecords == {<<3>> \o Tail(WalSetRecord(KeyA, Val1)), <<0>> \o Tail(WalDelRecord(KeyA))}

\* a record whose key or value is not UTF-8
InvalidUtf8Records ==
    {WalSetRecord(<<255>>, Val1), WalSetRecord(KeyA, <<255>>), WalDelRecord(<<255>>)}

MalformedRecords == TruncatedRecords \cup UnknownOpcodeRecords \cup InvalidUtf8Records

\* no Database is open; the directory holds a WAL with the records of ms and
\* then tail.  snap is the engine that wrote the records of ms.
InitWal ==
    \E n \in 0..MaxRecords : \E ms \in MutationSeqs(n) : \E tail \in {<<>>} \cup MalformedRecords :
        /\ dir = [x \in {WalName} |->
                    [bytes |-> WalRecordsOf(ms) \o tail, synced |-> TRUE,
                     created |-> ClockStart]]
        /\ memtable = MemTableNew
        /\ sstables = <<>>
        /\ compaction_policy = Disabled
        /\ last_compaction_time = ClockStart
        /\ clock = ClockStart
        /\ pc = <<"closed">>
        /\ call = NoCall
        /\ bld = NoBuilder
        /\ iters = <<>>
        /\ expected = [k \in Keys |-> LET m == MemTableGet(MemTableAfter(MemTableNew, ms), k)
                                      IN IF m.tag = "Some" THEN m.val ELSE None]
        /\ snap = [get |-> expected, tables |-> 0, memlen |-> MemTableLen(MemTableAfter(MemTableNew, ms)),
                   memtable |-> MemTableAfter(MemTableNew, ms), sstables |-> <<>>,
                   wal |-> WalRecordsOf(ms), files |-> {WalName}]
        /\ last_op = "none"
        /\ nwrites = 0
        /\ ncrashes = 0

\* Database::load on the directory
Load ==
    /\ pc = <<"closed">>
    /\ LET replay == WalReplay(wal, 0, MemTableNew)
           readers == LoadReaders(dir)
           ok == replay.ok /\ \A i \in 1..Len(readers) : readers[i].ok
       IN /\ memtable' = IF ok THEN replay.memtable ELSE MemTableNew
          /\ sstables' = IF ok THEN [i \in 1..Len(readers) |->
                                       [path |-> readers[i].path, index |-> readers[i].index]]
                         ELSE <<>>
          /\ pc' = IF ok THEN <<>> ELSE <<"load_failed">>
    /\ compaction_policy' = Disabled
    /\ last_compaction_time' = clock
    /\ last_op' = "load"
    /\ UNCHANGED <<dir, clock, call, bld, iters, expected, snap, nwrites, ncrashes>>

SpecLoad == InitWal /\ [][Load]_vars

(***************************************************************************)
(* The table API called directly, as src/tests/sstable.rs calls it:        *)
(* SSTableBuilder::new, add / delete with ascending keys, finish,          *)
(* SSTableReader::new and then get.  A value is short, or so long that its *)
(* entry shares a block with no other, so that tables of one to MaxEntries *)
(* blocks are built.                                                       *)
(***************************************************************************)
\* the keys fed are letters, "b" < "c" < "d" < ..., or strings of U+0000,
\* "" < "\0" < "\0\0\0\0" < "\0\0\0\0\0" < ...
LetterKeys == [i \in 1..MaxEntries |-> <<97 + i>>]
NulKeys ==
    [i \in 1..MaxEntries |->
        IF i = 1 THEN <<>> ELSE IF i = 2 THEN <<0>> ELSE [j \in 1..(i + 1) |-> 0]]
KeyPools == {LetterKeys, NulKeys}
\* a value of BLOCK_SIZE - 16 bytes
BigValue == [i \in 1..(BLOCK_SIZE - 16) |-> 49]
\* a value of BLOCK_SIZE - 8 bytes: with a key of one byte or more its entry
\* is longer than a block
OverValue == [i \in 1..(BLOCK_SIZE - 8) |-> 50]
\* what is fed for a key: nothing, add(key, "1"), add(key, BigValue),
\* add(key, OverValue), delete(key)
Feeds == {"absent", "small", "big", "over", "tombstone"}

\* the entries fed for the choice f of the keys ks, from key i on, in
\* ascending key order
RECURSIVE EntriesOf(_, _, _)
EntriesOf(ks, f, i) ==
    IF i > MaxEntries THEN <<>>
    ELSE (IF f[i] = "absent" THEN <<>>
          ELSE IF f[i] = "small" THEN <<(<<ks[i], Some(Val1)>>)>>
          ELSE IF f[i] = "big" THEN <<(<<ks[i], Some(BigValue)>>)>>
          ELSE IF f[i] = "over" THEN <<(<<ks[i], Some(OverValue)>>)>>
          ELSE <<(<<ks[i], None>>)>>)
         \o EntriesOf(ks, f, i + 1)

\* eight bytes of an index region that do not start an index entry: the
\* high half of a block offset and the key_len of a four-byte index key
OffsetAndKeyLen == <<0, 0, 0, 0>> \o U32LE(4)

\* the keys looked up: every key that can be fed; "a" below every letter,
\* "bb" between two letters, "z" above all keys; OffsetAndKeyLen, which is
\* above every string of U+0000 that is fed
LookupKeys ==
    {ks[i] : ks \in KeyPools, i \in 1..MaxEntries}
        \cup {KeyA, <<98, 98>>, <<122>>, OffsetAndKeyLen}

TableName == FlushName(ClockStart)

\* SSTableBuilder::new(path) has created the file; the entries to feed are
\* chosen
InitTable ==
    \E ks \in KeyPools, f \in [1..MaxEntries -> Feeds] :
        /\ dir = [x \in {TableName} |->
                    [bytes |-> <<>>, synced |-> FALSE, created |-> ClockStart]]
        /\ bld = [path |-> TableName, b |-> BuilderNew,
                  todo |-> EntriesOf(ks, f, 1), src |-> EntriesOf(ks, f, 1)]
        /\ memtable = MemTableNew
        /\ sstables = <<>>
        /\ compaction_policy = Disabled
        /\ last_compaction_time = ClockStart
        /\ clock = ClockStart
        /\ pc = <<"t_build">>
        /\ call = NoCall
        /\ iters = <<>>
        /\ expected = [k \in Keys |-> None]
        /\ snap = [get |-> expected, tables |-> 0, memlen |-> 0, memtable |-> MemTableNew,
                   sstables |-> <<>>, wal |-> <<>>, files |-> {TableName}]
        /\ last_op = "none"
        /\ nwrites = 0
        /\ ncrashes = 0

\* builder.add(key, value) or builder.delete(key) for the next entry
TableAdd ==
    /\ pc = <<"t_build">>
    /\ bld.todo # <<>>
    /\ LET key == Head(bld.todo)[1]
           val_opt == Head(bld.todo)[2]
           b1 == IF val_opt.tag = "Some" THEN BuilderAdd(bld.b, key, val_opt.val)
                 ELSE BuilderDelete(bld.b, key)
       IN /\ bld' = [bld EXCEPT !.b = b1, !.todo = Tail(bld.todo)]
          /\ dir' = WriteFile(dir, bld.path, b1.file, FALSE)
    /\ UNCHANGED <<memtable, sstables, compaction_policy, last_compaction_time, clock, pc,
                   call, iters, expected, snap, last_op, nwrites, ncrashes>>

\* builder.finish()
TableFinish ==
    /\ pc = <<"t_build">>
    /\ bld.todo = <<>>
    /\ dir' = WriteFile(dir, bld.path, BuilderFinish(bld.b), TRUE)
    /\ pc' = <<"t_open">>
    /\ UNCHANGED <<memtable, sstables, compaction_policy, last_compaction_time, clock,
                   call, bld, iters, expected, snap, last_op, nwrites, ncrashes>>

\* SSTableReader::new(path)
TableOpen ==
    /\ pc = <<"t_open">>
    /\ LET r == ReaderNew(FileBytes(bld.path))
       IN IF r.ok
          THEN /\ sstables' = <<[path |-> bld.path, index |-> r.index]>>
               /\ pc' = <<"t_ready">>
          ELSE /\ sstables' = sstables
               /\ pc' = <<"failed">>
    /\ UNCHANGED <<dir, memtable, compaction_policy, last_compaction_time, clock, call,
                   bld, iters, expected, snap, last_op, nwrites, ncrashes>>

\* reader.get(key) on the reader just opened; the result is kept in call.
\* Every read seeks to its own start offset first, so a read does not
\* depend on the reads before it and one read per reader is modelled.
TableGet(key) ==
    /\ pc = <<"t_ready">>
    /\ call = NoCall
    /\ call' = [op |-> "reader_get", key |-> key,
                result |-> ReaderGet(FileBytes(sstables[1].path), sstables[1].index, key)]
    /\ last_op' = "reader_get"
    /\ UNCHANGED <<dir, memtable, sstables, compaction_policy, last_compaction_time,
                   clock, pc, bld, iters, expected, snap, nwrites, ncrashes>>

\* the bounds given to scan: "a" below every letter, two keys that can be
\* fed, "z" above every key
ScanBounds == {KeyA, LetterKeys[2], LetterKeys[3], <<122>>}

\* reader.scan(start, end) on the reader just opened; the result is kept in
\* call
TableScan(start, end) ==
    /\ pc = <<"t_ready">>
    /\ call = NoCall
    /\ StrLeq(start, end)
    /\ call' = [op |-> "reader_scan", start |-> start, end |-> end,
                result |-> ReaderScan(FileBytes(sstables[1].path), sstables[1].index,
                                      start, end)]
    /\ last_op' = "reader_scan"
    /\ UNCHANGED <<dir, memtable, sstables, compaction_policy, last_compaction_time,
                   clock, pc, bld, iters, expected, snap, nwrites, ncrashes>>

NextTable ==
    \/ TableAdd
    \/ TableFinish
    \/ TableOpen
    \/ \E k \in LookupKeys : TableGet(k)
    \/ \E start \in ScanBounds, end \in ScanBounds : TableScan(start, end)

\* one table built, opened and read
SpecTable == InitTable /\ [][NextTable]_vars

(***************************************************************************)
(* Writes that reach MEMTABLE_THRESHOLD.                                   *)
(***************************************************************************)
\* a value of MEMTABLE_THRESHOLD - 2 bytes: with the key "a" it leaves an
\* empty memtable one byte below the threshold, with "ab" at the threshold
HugeValue == [i \in 1..(MEMTABLE_THRESHOLD - 2) |-> 49]

\* the engine after new, set_compaction_policy(Periodic(PeriodTicks)) and a
\* wait of PeriodTicks
InitDue ==
    /\ dir = [x \in {WalName} |-> [bytes |-> <<>>, synced |-> TRUE, created |-> ClockStart]]
    /\ memtable = MemTableNew
    /\ sstables = <<>>
    /\ compaction_policy = Periodic(PeriodTicks)
    /\ last_compaction_time = ClockStart
    /\ clock = ClockStart + PeriodTicks
    /\ pc = <<>>
    /\ call = NoCall
    /\ bld = NoBuilder
    /\ iters = <<>>
    /\ expected = [k \in Keys |-> None]
    /\ snap = [get |-> expected, tables |-> 0, memlen |-> 0, memtable |-> MemTableNew,
               sstables |-> <<>>, wal |-> <<>>, files |-> {WalName}]
    /\ last_op = "set_compaction_policy"
    /\ nwrites = 0
    /\ ncrashes = 0

InitThreshold == Init \/ InitDue

NextThreshold ==
    \/ \E k \in Keys : SetWal(k, Val1)
    \/ \E k \in Keys : DelWal(k)
    \/ \E k \in Keys : SetWal(k, HugeValue)
    \/ WriteMem
    \/ WriteTrigger
    \/ FlushBegin
    \/ FlushAdd
    \/ FlushFinish
    \/ FlushRegister
    \/ FlushClearMem
    \/ FlushClearWal
    \/ CompactStart
    \/ MergeStep
    \/ CompactFinish
    \/ \E n \in DOMAIN dir : CompactDelete(n)
    \/ CompactInstall

\* writes of short and of huge values to one engine
SpecThreshold == InitThreshold /\ [][NextThreshold]_vars

(***************************************************************************)
(* Reads of an engine with two sealed tables of which the newer has blocks *)
(* of BigValue entries, so that its reader fails on some keys.             *)
(***************************************************************************)
\* builder.add / builder.delete for every entry of es, in order
RECURSIVE BuildAll(_, _)
BuildAll(b, es) ==
    IF es = <<>> THEN b
    ELSE BuildAll(IF Head(es)[2].tag = "Some"
                  THEN BuilderAdd(b, Head(es)[1], Head(es)[2].val)
                  ELSE BuilderDelete(b, Head(es)[1]),
                  Tail(es))

\* the memtable and the WAL of the engine after the last flush: nothing, a
\* del of the first key, or a set of the second key
RecentMutations ==
    {<<>>,
     <<[op |-> "del", key |-> LetterKeys[1], value |-> <<>>]>>,
     <<[op |-> "set", key |-> LetterKeys[2], value |-> Val2]>>}

\* the engine after new, set(k, "1") for the keys of older, flush,
\* set(k, BigValue) for the keys of newer, flush and the calls of ms
InitRead ==
    \E older \in [1..MaxEntries -> {"absent", "small"}],
       newer \in [1..MaxEntries -> {"absent", "big"}],
       ms \in RecentMutations :
        /\ EntriesOf(LetterKeys, older, 1) # <<>>
        /\ EntriesOf(LetterKeys, newer, 1) # <<>>
        /\ dir = [x \in {WalName, FlushName(ClockStart), FlushName(ClockStart + 1)} |->
                    IF x = WalName
                    THEN [bytes |-> WalRecordsOf(ms), synced |-> TRUE,
                          created |-> ClockStart - 1]
                    ELSE IF x = FlushName(ClockStart)
                    THEN [bytes |-> BuilderFinish(BuildAll(BuilderNew,
                                       EntriesOf(LetterKeys, older, 1))),
                          synced |-> TRUE, created |-> ClockStart]
                    ELSE [bytes |-> BuilderFinish(BuildAll(BuilderNew,
                                       EntriesOf(LetterKeys, newer, 1))),
                          synced |-> TRUE, created |-> ClockStart + 1]]
        /\ memtable = MemTableAfter(MemTableNew, ms)
        /\ sstables = <<[path |-> FlushName(ClockStart + 1),
                         index |-> ReaderNew(FileBytes(FlushName(ClockStart + 1))).index],
                        [path |-> FlushName(ClockStart),
                         index |-> ReaderNew(FileBytes(FlushName(ClockStart))).index]>>
        /\ compaction_policy = Disabled
        /\ last_compaction_time = ClockStart - 1
        /\ clock = ClockStart + 2
        /\ pc = <<>>
        /\ call = NoCall
        /\ bld = NoBuilder
        /\ iters = <<>>
        /\ expected = [k \in Keys |-> None]
        /\ snap = [get |-> expected, tables |-> 1, memlen |-> 0, memtable |-> MemTableNew,
                   sstables |-> <<>>, wal |-> <<>>, files |-> DOMAIN dir]
        /\ last_op = "none"
        /\ nwrites = 0
        /\ ncrashes = 0

\* the keys asked of get: every key that can be fed, and "z"
ReadKeys == {LetterKeys[i] : i \in 1..MaxEntries} \cup {<<122>>}
\* the prefixes asked of get_by_prefix: "", the first and the second key
ReadPrefixes == {<<>>, LetterKeys[1], LetterKeys[2]}

\* variant: get ends with try_trigger_compaction, as the writes do
EngineGet_Triggers(key) ==
    /\ pc = <<>>
    /\ call' = [op |-> "get", key |-> key, result |-> Get(key)]
    /\ last_op' = "get"
    /\ pc' = <<"w_trigger">>
    /\ UNCHANGED <<dir, memtable, sstables, compaction_policy, last_compaction_time,
                   clock, bld, iters, expected, snap, nwrites, ncrashes>>

\* Database::get(key); the result is kept in call
EngineGet(key) ==
    /\ pc = <<>>
    /\ call' = [op |-> "get", key |-> key, result |-> Get(key)]
    /\ last_op' = "get"
    /\ UNCHANGED <<dir, memtable, sstables, compaction_policy, last_compaction_time,
                   clock, pc, bld, iters, expected, snap, nwrites, ncrashes>>

\* Database::get_by_prefix(prefix); the result is kept in call
EngineGetByPrefix(prefix) ==
    /\ pc = <<>>
    /\ call' = [op |-> "get_by_prefix", prefix |-> prefix, result |-> GetByPrefix(prefix)]
    /\ last_op' = "get_by_prefix"
    /\ UNCHANGED <<dir, memtable, sstables, compaction_policy, last_compaction_time,
                   clock, pc, bld, iters, expected, snap, nwrites, ncrashes>>

NextRead ==
    \/ \E k \in ReadKeys : EngineGet(k)
    \/ \E p \in ReadPrefixes : EngineGetByPrefix(p)

\* the reads of one engine with two sealed tables
SpecRead == InitRead /\ [][NextRead]_vars

(***************************************************************************)
(* What a table file holds, read the way compaction reads it.              *)
(***************************************************************************)
\* the items SSTableIterator yields for a file, up to the first None
RECURSIVE IterAll(_, _)
IterAll(bytes, it) ==
    LET r == IterNext(bytes, it)
    IN IF r.item.tag = "None" THEN <<>>
       ELSE IF r.item.val.tag = "Err" THEN <<Err>>
       ELSE <<r.item.val>> \o IterAll(bytes, r.it)

TableItems(name) == IterAll(FileBytes(name), IntoIter(FileBytes(name)))

\* the table holds a live value / a tombstone for the key
HoldsLive(name, key) ==
    \E i \in 1..Len(TableItems(name)) :
        /\ TableItems(name)[i].tag = "Ok"
        /\ TableItems(name)[i].key = key
        /\ TableItems(name)[i].val.tag = "Some"

HoldsTombstone(name, key) ==
    \E i \in 1..Len(TableItems(name)) :
        /\ TableItems(name)[i].tag = "Ok"
        /\ TableItems(name)[i].key = key
        /\ TableItems(name)[i].val = None

\* finish() has returned for the file: data, index and footer written, synced
Finalized(d, name) ==
    /\ name \in DOMAIN d
    /\ d[name].synced
    /\ ReaderNew(d[name].bytes).ok

SstFiles(d) == {n \in DOMAIN d : IsSst(n)}

Idle == pc = <<>>

(***************************************************************************)
(* Claims.                                                                 *)
(***************************************************************************)

C2_Durability == (Idle /\ last_op = "load") => \A k \in Keys : Get(k) = snap.get[k]

\* the tombstone that decides get(k): in the memtable, or in a sealed table
\* that precedes every table holding a live value for k
TombstoneFirst(k) ==
    \/ MemTableGet(memtable, k) = Some(None)
    \/ /\ ~MemHas(memtable, k)
       /\ \E i \in 1..Len(sstables) :
            /\ HoldsTombstone(sstables[i].path, k)
            /\ \A j \in 1..(i - 1) : ~HoldsLive(sstables[j].path, k)

OneTable ==
    /\ Cardinality(SstFiles(dir)) = 1
    /\ WalName \in DOMAIN dir
    /\ Len(sstables) = 1
    /\ sstables[1].path \in SstFiles(dir)
    /\ sstables[1].index = ReaderNew(FileBytes(sstables[1].path)).index

\* C5 as stated: for any engine state, after compact() returns successfully
\* the directory holds exactly one *.sst file and the table list one reader.
C5_OneTableAlways == (Idle /\ last_op = "compact") => OneTable

\* C5 amended: the same for a compact() called with a non-empty memtable or
\* at least one sealed table; with neither, compact() returns at once and
\* creates no file.
C5_OneTable ==
    (Idle /\ last_op = "compact" /\ (snap.tables > 0 \/ snap.memlen > 0)) => OneTable

\* C5 witness: a compact() called with two sealed tables has returned.
C5_Witness == Idle /\ last_op = "compact" /\ snap.tables >= 2 /\ OneTable

\* the values get_by_prefix(p) is to return: the current value of every key
\* that starts with p and whose latest mutation is a set, in key order
RECURSIVE LiveValues(_, _)
LiveValues(ks, prefix) ==
    IF ks = <<>> THEN <<>>
    ELSE (IF StartsWith(Head(ks), prefix) /\ expected[Head(ks)].tag = "Some"
          THEN <<expected[Head(ks)].val>> ELSE <<>>)
         \o LiveValues(Tail(ks), prefix)

\* C6: get_by_prefix(p) returns exactly the current values of the keys that
\* start with p and whose latest mutation is a set, in ascending key order.
C6_PrefixCompleteness ==
    Idle => \A p \in Prefixes : GetByPrefix(p) = LiveValues(SortedSeq(Keys), p)

\* C7: the table list is ordered newest-first by creation, in every state
\* and also in the state load builds.
C7_NewestFirst ==
    \A i, j \in 1..Len(sstables) :
        i < j => dir[sstables[i].path].created > dir[sstables[j].path].created

\* the (key, value-or-tombstone) records of a WAL, from pos on
RECURSIVE WalRecords(_, _)
WalRecords(bytes, pos) ==
    LET r == WalNext(bytes, pos)
    IN IF r.st = "ok" THEN {<<r.key, r.val>>} \cup WalRecords(bytes, r.next) ELSE {}

\* the memtable once the mutation whose WAL record is written has been applied
MemTableDue == IF pc # <<>> /\ Head(pc) = "w_mem" THEN MemTableApply(memtable, call) ELSE memtable

\* C8 as stated: at every step of every set, del and batch_set and in every
\* quiescent state, replaying the WAL from its start yields a map that holds
\* every memtable entry with the same value or tombstone.
C8_ReplayHoldsMemtable ==
    LET replay == WalReplay(wal, 0, MemTableNew)
    IN /\ replay.ok
       /\ \A k \in DOMAIN memtable.map :
            /\ MemHas(replay.memtable, k)
            /\ replay.memtable.map[k] = memtable.map[k]

\* C8 amended: in every state each memtable entry has its record in the WAL,
\* and replaying the WAL from its start yields a map that holds every entry
\* of the memtable as it is once the mutation in progress has been applied;
\* between a mutation's WAL append and its memtable update the replayed map
\* holds the new value of the mutated keys and the memtable the previous one,
\* in every other state the replayed map holds the memtable's entries.
C8_WalCoversMemtable ==
    LET replay == WalReplay(wal, 0, MemTableNew)
    IN /\ replay.ok
       /\ \A k \in DOMAIN memtable.map : <<k, memtable.map[k]>> \in WalRecords(wal, 0)
       /\ \A k \in DOMAIN MemTableDue.map :
            /\ MemHas(replay.memtable, k)
            /\ replay.memtable.map[k] = MemTableDue.map[k]

\* C8 witness: a set of "a" has written and synced its WAL record, the
\* memtable still holds the older value of "a".
C8_Witness ==
    /\ pc # <<>> /\ Head(pc) = "w_mem" /\ call.op = "set" /\ call.key = KeyA
    /\ MemHas(memtable, KeyA) /\ memtable.map[KeyA] # Some(call.value)
    /\ WalReplay(wal, 0, MemTableNew).memtable.map[KeyA] = Some(call.value)

\* the running flush has finalized its table and the table holds the
\* memtable's entries
FlushTableDurable ==
    /\ bld # NoBuilder
    /\ Finalized(dir, bld.path)
    /\ Len(TableItems(bld.path)) = Len(bld.src)
    /\ \A i \in 1..Len(bld.src) :
          TableItems(bld.path)[i] = Ok(bld.src[i][1], bld.src[i][2])

\* C9: the WAL is truncated only after the new table file has been finalized
\* and fsynced: every step that empties a non-empty WAL starts in a state in
\* which the flush's table is durable and holds the memtable's entries.
C9_TruncateAfterSync == [][(wal # <<>> /\ wal' = <<>>) => FlushTableDurable]_vars

\* C9 witness: the WAL has just been truncated by a flush of two entries.
C9_Witness ==
    /\ Idle /\ last_op = "flush" /\ wal = <<>>
    /\ Len(sstables) >= 1 /\ Len(TableItems(sstables[1].path)) = 2

\* C10: no input *.sst file is deleted before finish() of the new compacted
\* table has returned: every step that removes a *.sst file starts in a state
\* in which the compaction's table is finalized.
C10_DeleteAfterFinish ==
    [][(\E n \in SstFiles(dir) : n \notin DOMAIN dir')
         => (bld # NoBuilder /\ Finalized(dir, bld.path)
             /\ FileBytes(bld.path) = BuilderFinish(bld.b))]_vars

\* C10 witness: one of two input files is deleted, the other not yet.
C10_Witness ==
    /\ pc # <<>> /\ Head(pc) = "c_delete"
    /\ \E i, j \in 1..Len(iters) :
          iters[i].path \notin DOMAIN dir /\ iters[j].path \in DOMAIN dir

\* the steps of flush_memtable after builder.finish() and before the return
\* of wal.clear()
AfterFinalize == {"crash in f_register", "crash in f_clear_mem", "crash in f_clear_wal"}

\* C11: when the process stops during a flush after the new table was
\* finalized and before the WAL was truncated, load on the directory succeeds
\* and get(k) of the loaded engine is, for every key, what get(k) returned
\* before the flush began.
C11_CrashAfterFinalize ==
    last_op \in AfterFinalize =>
        /\ pc # <<"load_failed">>
        /\ Idle => \A k \in Keys : Get(k) = snap.get[k]

\* C12: load on a directory whose WAL holds n well-formed records followed
\* by a malformed record (cut short, unknown opcode or invalid UTF-8)
\* succeeds, and the loaded memtable holds exactly the effect of replaying
\* the first n records in order.
C12_TailLossyLoad ==
    (last_op = "load" /\ wal # snap.wal) => (pc = <<>> /\ memtable = snap.memtable)

\* the call that failed has returned its error or has panicked
AfterError == pc = <<>> \/ pc = <<"panicked">>

\* C13: when creating, writing or finalizing the new table fails during
\* compact(), no input table file has been deleted and the table list still
\* holds the input readers, so that get(k) returns for every key what it
\* returned before the call.
C13_CompactErrorKeepsTables ==
    (last_op = "compact_err" /\ AfterError) =>
        /\ snap.files \subseteq DOMAIN dir
        /\ Len(sstables) >= snap.tables
        /\ \A k \in Keys : Get(k) = snap.get[k]

\* C14: when creating, writing or finalizing the new table fails during a
\* flush, the memtable, the WAL contents and the table list are as they were
\* when the flush began, and every get is unchanged.
C14_FlushErrorChangesNothing ==
    (last_op = "flush_err" /\ AfterError) =>
        /\ memtable = snap.memtable
        /\ wal = snap.wal
        /\ sstables = snap.sstables
        /\ \A k \in Keys : Get(k) = snap.get[k]

\* C14 witness: a flush of a non-empty memtable over a sealed table failed
\* after the new file was created.
C14_Witness ==
    /\ last_op = "flush_err" /\ AfterError
    /\ snap.memlen >= 1 /\ snap.tables >= 1
    /\ DOMAIN dir # snap.files
    /\ \E k \in Keys : Get(k) # None

\* the input tables of the running compaction, in the order of the table
\* list, once builder.finish() has returned and while all of them exist
MergeDone ==
    /\ pc # <<>> /\ Head(pc) = "c_delete"
    /\ \A i \in 1..Len(iters) : iters[i].path \in DOMAIN dir

InputKeys ==
    UNION {{TableItems(iters[i].path)[n].key : n \in 1..Len(TableItems(iters[i].path))} :
              i \in 1..Len(iters)}

Holds(name, k) == HoldsLive(name, k) \/ HoldsTombstone(name, k)

\* the input created last among those that hold the key
NewestInput(k) ==
    CHOOSE i \in 1..Len(iters) :
        /\ Holds(iters[i].path, k)
        /\ \A j \in 1..Len(iters) :
              Holds(iters[j].path, k) =>
                  dir[iters[j].path].created <= dir[iters[i].path].created

\* the value an input holds for a key: Some(v) or None for a tombstone
ValueIn(name, k) ==
    LET at == CHOOSE n \in 1..Len(TableItems(name)) : TableItems(name)[n].key = k
    IN TableItems(name)[at].val

\* C15: the table compact() writes holds, for every key of an input table,
\* exactly one live entry with the value of the newest input that holds the
\* key when that occurrence is live, and no entry when it is a tombstone; it
\* holds no tombstone and no key that no input holds.
C15_MergeOutput ==
    MergeDone =>
        LET out == TableItems(bld.path)
        IN /\ \A n \in 1..Len(out) :
                 /\ out[n].tag = "Ok"
                 /\ out[n].val.tag = "Some"
                 /\ out[n].key \in InputKeys
           /\ \A k \in InputKeys :
                 LET v == ValueIn(iters[NewestInput(k)].path, k)
                     at == {n \in 1..Len(out) : out[n].key = k}
                 IN IF v.tag = "Some"
                    THEN Cardinality(at) = 1 /\ \A n \in at : out[n].val = v
                    ELSE at = {}

AsSets(entries) ==
    [i \in 1..Len(entries) |->
        [op |-> "set", key |-> entries[i][1], value |-> entries[i][2]]]

\* C17: batch_set(entries) appends to the WAL the records that set(key,
\* value) writes for each element, in list order, before the memtable is
\* changed, and then leaves the memtable, and so every get(k), as the calls
\* set(key, value) in list order leave them.
C17_BatchAsSets ==
    [][/\ (pc = <<>> /\ pc' = <<"w_mem">> /\ call'.op = "batch_set") =>
            /\ wal' = wal \o WalRecordsOf(AsSets(call'.entries))
            /\ memtable' = memtable
       /\ (pc = <<"w_mem">> /\ call.op = "batch_set") =>
            /\ memtable' = MemTableAfter(memtable, AsSets(call.entries))
            /\ wal' = wal
            /\ \A k \in Keys :
                  GetIn(dir', memtable', sstables', k)
                     = GetIn(dir, MemTableAfter(memtable, AsSets(call.entries)), sstables, k)]_vars

\* C17 witness: a batch with two elements for "a" has returned; the WAL holds
\* both records in list order and get("a") is the later value.
C17_Witness ==
    /\ Idle /\ last_op = "batch_set"
    /\ wal = WalSetRecord(KeyA, Val1) \o WalSetRecord(KeyA, Val2)
    /\ Get(KeyA) = Some(Val2)

\* the number of records of a WAL, from pos on
RECURSIVE WalCount(_, _)
WalCount(bytes, pos) ==
    LET r == WalNext(bytes, pos)
    IN IF r.st = "ok" THEN 1 + WalCount(bytes, r.next) ELSE 0

\* C19: the WAL is append-only between flushes: every set and every del
\* appends exactly one record and leaves the earlier bytes as they are, so
\* the WAL grows with each mutation, and only the truncation of a flush
\* shortens or rewrites it.
C19_WalAppendOnly ==
    [][/\ (pc = <<>> /\ pc' = <<"w_mem">> /\ call'.op \in {"set", "del"}) =>
            /\ wal' = wal \o WalRecord(call')
            /\ Len(wal') > Len(wal)
            /\ WalCount(wal', 0) = WalCount(wal, 0) + 1
       /\ (Len(wal') < Len(wal) \/ SubSeq(wal', 1, Len(wal)) # wal) =>
            (pc # <<>> /\ Head(pc) = "f_clear_wal" /\ wal' = <<>>)]_vars

\* C19 witness: a del of a key that was never written has appended its
\* record after the record of a set.
C19_Witness ==
    /\ pc = <<"w_mem">> /\ call.op = "del" /\ call.key = KeyAB
    /\ sstables = <<>> /\ ~MemHas(memtable, KeyAB)
    /\ wal = WalSetRecord(KeyA, Val1) \o WalDelRecord(KeyAB)

WriteOps == {"set", "del", "batch_set"}

\* a write is at try_trigger_compaction
AtTrigger == pc # <<>> /\ Head(pc) = "w_trigger"

\* last_compaction_time.elapsed() >= d
Due == compaction_policy.tag = "Periodic"
       /\ clock - last_compaction_time >= compaction_policy.d

\* the step with which a compaction invoked by a write returns
TriggeredReturn ==
    /\ pc # <<>> /\ Head(pc) \in {"c_start", "c_delete"}
    /\ call.op \in WriteOps
    /\ pc' = <<>>

\* what C18 says of policy Disabled and of a write that finishes before d
\* has elapsed, and that a due write invokes compact()
PolicyDecides ==
    /\ (call.op \in WriteOps /\ compaction_policy.tag = "Disabled") =>
          /\ Len(sstables') >= Len(sstables)
          /\ AtTrigger => (pc' = <<>> /\ sstables' = sstables /\ dir' = dir)
    /\ (AtTrigger /\ compaction_policy.tag = "Periodic" /\ ~Due) =>
          (pc' = <<>> /\ sstables' = sstables /\ dir' = dir /\ memtable' = memtable)
    /\ (AtTrigger /\ Due) => pc' = <<"f_begin", "c_start">>

\* C18 as stated: Disabled never compacts on a write; with Periodic(d) a
\* write that finishes when at least d has elapsed invokes compact() and
\* returns with an empty memtable and exactly one sealed table; a write that
\* finishes sooner does not compact.
C18_PeriodicOneTable ==
    [][/\ PolicyDecides
       /\ TriggeredReturn => (MemTableLen(memtable') = 0 /\ Len(sstables') = 1)]_vars

\* C18 amended: the same, but the due write returns with exactly one sealed
\* table only when it left something to compact; a due batch_set of no
\* element on an engine without data returns with no table.
C18_PeriodicAtMostOneTable ==
    [][/\ PolicyDecides
       /\ TriggeredReturn =>
            /\ MemTableLen(memtable') = 0
            /\ Len(sstables') = IF snap.tables = 0 /\ snap.memlen = 0 THEN 0 ELSE 1]_vars

\* C18 witness: under Periodic a set has returned from the compaction it
\* invoked, which merged its flushed memtable with an older table.
C18_Witness ==
    /\ Idle /\ last_op = "set" /\ compaction_policy.tag = "Periodic"
    /\ snap.tables >= 1 /\ snap.memlen >= 1
    /\ MemTableLen(memtable) = 0 /\ Len(sstables) = 1

\* the entries fed to the builder of the table
Fed == {bld.src[i] : i \in 1..Len(bld.src)}

\* C20: for a table built from strictly ascending keys, of any number of
\* blocks, reader.get(k) returns Found(v) exactly when (k, v) was fed as a
\* live entry and Deleted exactly when a tombstone was fed for k.
C20_TableGet ==
    (pc = <<"t_ready">> /\ call.op = "reader_get") =>
        /\ \A v \in {Val1, BigValue, OverValue} :
              (call.result = Found(v)) <=> (<<call.key, Some(v)>> \in Fed)
        /\ call.result.tag = "Found" => call.result.val \in {Val1, BigValue, OverValue}
        /\ (call.result = Deleted) <=> (<<call.key, None>> \in Fed)

\* the live entries among es whose key lies in [start, end], in feed order
RECURSIVE LiveInRange(_, _, _)
LiveInRange(es, start, end) ==
    IF es = <<>> THEN <<>>
    ELSE (IF Head(es)[2].tag = "Some" /\ StrLeq(start, Head(es)[1]) /\ StrLeq(Head(es)[1], end)
          THEN <<(<<Head(es)[1], Head(es)[2].val>>)>> ELSE <<>>)
         \o LiveInRange(Tail(es), start, end)

\* C21: for a table built from a strictly ascending feed, scan(start, end)
\* with start <= end succeeds and returns exactly the live entries fed with
\* start <= key <= end, each once with its value, in ascending key order and
\* without tombstones, also when end is at or above the greatest key.
C21_ScanExact ==
    (pc = <<"t_ready">> /\ call.op = "reader_scan") =>
        /\ call.result.ok
        /\ call.result.results = LiveInRange(bld.src, call.start, call.end)

\* reader i's answer to get(key) and to the scan of get_by_prefix(prefix)
GetOf(i, key) == ReaderGet(FileBytes(sstables[i].path), sstables[i].index, key)
ScanOf(i, prefix) ==
    ReaderScan(FileBytes(sstables[i].path), sstables[i].index, prefix, prefix \o MaxChar)

\* the readers that decide get(key): Found or Deleted
Deciding(key) == {i \in 1..Len(sstables) : GetOf(i, key).tag \in {"Found", "Deleted"}}

\* what get(key) is to return when failing readers are skipped
GetSkippingErrors(key) ==
    IF MemHas(memtable, key) THEN memtable.map[key]
    ELSE IF Deciding(key) = {} THEN None
    ELSE LET i == CHOOSE i \in Deciding(key) : \A j \in Deciding(key) : i <= j
         IN IF GetOf(i, key).tag = "Found" THEN Some(GetOf(i, key).val) ELSE None

\* the tables whose scan for prefix succeeds and returns key
ScannedWith(prefix, key) ==
    {i \in 1..Len(sstables) :
        ScanOf(i, prefix).ok
        /\ \E n \in 1..Len(ScanOf(i, prefix).results) : ScanOf(i, prefix).results[n][1] = key}

\* the value the newest such table returns last for key
ScannedValue(prefix, key) ==
    LET i == CHOOSE i \in ScannedWith(prefix, key) : \A j \in ScannedWith(prefix, key) : i <= j
        rs == ScanOf(i, prefix).results
        n == CHOOSE n \in 1..Len(rs) :
                 rs[n][1] = key /\ \A m \in 1..Len(rs) : rs[m][1] = key => m <= n
    IN rs[n][2]

\* what get_by_prefix(prefix) is to return when failing scans are skipped
PrefixSkippingErrors(prefix) ==
    LET mem == {k \in DOMAIN memtable.map : StartsWith(k, prefix)}
        tab == {k \in UNION {{ScanOf(i, prefix).results[n][1] :
                                 n \in 1..Len(ScanOf(i, prefix).results)} :
                             i \in {j \in 1..Len(sstables) : ScanOf(j, prefix).ok}} : TRUE}
        map == [k \in mem \cup tab |->
                   IF k \in mem THEN memtable.map[k] ELSE Some(ScannedValue(prefix, k))]
    IN FlattenValues(map, SortedSeq(mem \cup tab))

\* C22: a reader that fails during get(k) is skipped and the next older
\* reader decides; a table whose scan fails during get_by_prefix contributes
\* nothing while the other tables and the memtable are merged; both calls
\* return.
C22_ReaderErrorsSkipped ==
    /\ (pc = <<>> /\ call.op = "get") => call.result = GetSkippingErrors(call.key)
    /\ (pc = <<>> /\ call.op = "get_by_prefix") =>
          call.result = PrefixSkippingErrors(call.prefix)

\* C22 witness: the newer reader failed on get(k) and the older reader's
\* value was returned.
C22_Witness ==
    /\ pc = <<>> /\ call.op = "get"
    /\ Len(sstables) = 2 /\ GetOf(1, call.key) = Err
    /\ GetOf(2, call.key) = Found(Val1)
    /\ call.result = Some(Val1)

\* C23: for a table built from a strictly ascending feed, get(k) of a key
\* that was not fed returns NotFound, never an error, Found or Deleted, also
\* when k is above every key of the table.
C23_MissingKeyNotFound ==
    (pc = <<"t_ready">> /\ call.op = "reader_get"
        /\ \A e \in Fed : e[1] # call.key) => call.result = NotFound

\* the items a table is to yield for the entries es of a memtable
ItemsOf(es) == [i \in 1..Len(es) |-> Ok(es[i][1], es[i][2])]

\* C24: a flush with a non-empty memtable creates exactly one new table
\* file, which holds exactly the memtable's entries, each key once in
\* ascending key order, tombstones included; its reader is put at the front
\* of the table list; the memtable is left empty with size_bytes 0 and the
\* WAL empty.
C24_FlushSealsMemtable ==
    [][(pc # <<>> /\ Head(pc) = "f_clear_wal") =>
          /\ snap.memlen > 0
          /\ (DOMAIN dir') \ snap.files = {bld.path}
          /\ IsSst(bld.path)
          /\ TableItems(bld.path) = ItemsOf(MemTableIter(snap.memtable))
          /\ dir'[bld.path] = dir[bld.path]
          /\ sstables' = <<[path |-> bld.path,
                            index |-> ReaderNew(FileBytes(bld.path)).index]>>
                         \o snap.sstables
          /\ memtable' = [map |-> <<>>, size_bytes |-> 0]
          /\ dir'[WalName].bytes = <<>>]_vars

\* C24 witness: a flush of a memtable with a live entry and a tombstone has
\* returned, and the new table is first in the list.
C24_Witness ==
    /\ Idle /\ last_op = "flush" /\ snap.memlen = 2
    /\ \E k \in Keys : MemHas(snap.memtable, k) /\ snap.memtable.map[k] = None
    /\ \E k \in Keys : MemHas(snap.memtable, k) /\ snap.memtable.map[k] # None
    /\ Len(sstables) >= 1 /\ Len(TableItems(sstables[1].path)) = 2
    /\ MemTableLen(memtable) = 0 /\ wal = <<>>

\* what C25 says of the threshold test: a write returns with size_bytes
\* below MEMTABLE_THRESHOLD, and the flush between the memtable insertion
\* and try_trigger_compaction runs exactly when the insertion brought
\* size_bytes to the threshold or above, and has sealed a table and emptied
\* the memtable when it ends
ThresholdRule ==
    /\ (pc # <<>> /\ call.op \in WriteOps /\ pc' = <<>>) =>
          memtable'.size_bytes < MEMTABLE_THRESHOLD
    /\ (pc = <<"w_mem">>) =>
          /\ (memtable'.size_bytes >= MEMTABLE_THRESHOLD) => pc' = <<"f_begin", "w_trigger">>
          /\ (memtable'.size_bytes < MEMTABLE_THRESHOLD) => pc' = <<"w_trigger">>
    /\ (pc = <<"f_clear_wal", "w_trigger">>) =>
          /\ sstables # <<>> /\ sstables[1].path = bld.path
          /\ memtable.size_bytes = 0

\* a write is about to seal its memtable although size_bytes is below the
\* threshold
FlushBelowThreshold ==
    /\ pc # <<>> /\ Head(pc) = "f_begin" /\ call.op \in WriteOps
    /\ MemTableLen(memtable) > 0
    /\ memtable.size_bytes < MEMTABLE_THRESHOLD

\* C25 as stated: every write returns with size_bytes below
\* MEMTABLE_THRESHOLD; a write that brings it to the threshold flushes to a
\* new table before it returns, and a write that leaves it below the
\* threshold does not flush.
C25_FlushOnlyAtThreshold ==
    [][ThresholdRule /\ ~FlushBelowThreshold]_vars

\* C25 amended: the same, but a write that leaves size_bytes below the
\* threshold does flush when the periodic compaction it triggers is due.
C25_ThresholdFlush ==
    [][/\ ThresholdRule
       /\ FlushBelowThreshold =>
             (compaction_policy.tag = "Periodic" /\ pc = <<"f_begin", "c_start">>)]_vars

\* C25 witness: with policy Disabled a set has left size_bytes below the
\* threshold and has returned without sealing a table; the memtable and the
\* WAL hold its entry.
C25_Witness ==
    /\ Idle /\ last_op = "set" /\ compaction_policy.tag = "Disabled"
    /\ memtable.size_bytes > 0 /\ memtable.size_bytes < MEMTABLE_THRESHOLD
    /\ sstables = <<>> /\ SstFiles(dir) = {}
    /\ wal # <<>>

\* the sum of len(k) over the keys ks of mt plus len(v) over the live ones
RECURSIVE FootprintOf(_, _)
FootprintOf(mt, ks) ==
    IF ks = <<>> THEN 0
    ELSE Len(Head(ks))
         + (IF mt.map[Head(ks)].tag = "Some" THEN Len(mt.map[Head(ks)].val) ELSE 0)
         + FootprintOf(mt, Tail(ks))

\* C26: after every sequence of memtable set, del and clear calls,
\* size_bytes is the sum of the key lengths plus the sum of the lengths of
\* the live values; a tombstone counts its key only, also when it replaced
\* a live value.
C26_SizeIsFootprint ==
    memtable.size_bytes = FootprintOf(memtable, SortedSeq(DOMAIN memtable.map))

\* the bytes of one entry in a table file and their number
Encoded(e) ==
    U32LE(Len(e[1])) \o e[1]
        \o (IF e[2].tag = "Some" THEN U32LE(Len(e[2].val)) \o e[2].val ELSE TOMBSTONE)
EntrySize(e) == 4 + Len(e[1]) + 4 + (IF e[2].tag = "Some" THEN Len(e[2].val) ELSE 0)

\* marks bytes that are not a whole entry; no key, since -1 is no byte
Torn == <<-1>>

\* the keys of the entries that bytes consists of, in file order; Torn is
\* appended when bytes does not end with the end of an entry
RECURSIVE KeysIn(_, _)
KeysIn(bytes, pos) ==
    IF pos = Len(bytes) THEN <<>>
    ELSE LET h == ReadEntryHeader(bytes, pos)
         IN IF h.st # "ok" THEN <<Torn>>
            ELSE IF h.vw = TOMBSTONE THEN <<h.key>> \o KeysIn(bytes, h.vpos)
            ELSE IF ~CanRead(bytes, h.vpos, FromLE32(h.vw)) THEN <<Torn>>
            ELSE <<h.key>> \o KeysIn(bytes, h.vpos + FromLE32(h.vw))

\* whole entries only
Whole(ks) == \A i \in 1..Len(ks) : ks[i] # Torn

\* the footer of a finished file, the offsets its index holds, and the block
\* that starts at offset o: the bytes up to the next indexed offset or, for
\* the last block, up to the offset in the footer
FooterOf(bytes) == FromLE64(Slice(bytes, Len(bytes) - 8, 8))
BlockStarts(bytes) ==
    {ReaderNew(bytes).index[k] : k \in DOMAIN ReaderNew(bytes).index}
BlockAt(bytes, o) ==
    LET later == {p \in BlockStarts(bytes) \cup {FooterOf(bytes)} : p > o}
    IN IF later = {} THEN <<>>
       ELSE Slice(bytes, o, (CHOOSE p \in later : \A q \in later : p <= q) - o)

\* a block that may be written: not empty, whole entries, and at most
\* BLOCK_SIZE bytes unless it is one entry
BlockOk(block) ==
    /\ block # <<>>
    /\ Whole(KeysIn(block, 0))
    /\ Len(block) <= BLOCK_SIZE \/ Len(KeysIn(block, 0)) = 1

\* add / delete of the next entry: the current block is written first
\* exactly when the buffer is not empty and buffer and entry exceed
\* BLOCK_SIZE; the entry is then appended to the buffer
AppendRule ==
    LET e == Head(bld.todo)
        b == bld.b
        nb == bld'.b
        flush == b.block_buffer # <<>> /\ Len(b.block_buffer) + EntrySize(e) > BLOCK_SIZE
    IN /\ flush =>
            /\ nb.file = b.file \o b.block_buffer
            /\ nb.block_buffer = Encoded(e)
            /\ BlockOk(b.block_buffer)
       /\ ~flush =>
            /\ nb.file = b.file
            /\ nb.block_buffer = b.block_buffer \o Encoded(e)

\* C27: every block of a written table holds whole entries only, is not
\* empty and is at most BLOCK_SIZE bytes long or is one entry, and no offset
\* is indexed twice; add and delete write the current block first exactly
\* when the buffer is not empty and its length plus the size of the new
\* entry exceeds BLOCK_SIZE.
C27_BlocksWholeAndBounded ==
    [][/\ (pc = <<"t_build">> /\ bld.todo # <<>>) => AppendRule
       /\ (pc = <<"t_ready">>) =>
            LET bytes == FileBytes(bld.path)
            IN /\ \A o \in BlockStarts(bytes) : BlockOk(BlockAt(bytes, o))
               /\ Cardinality(BlockStarts(bytes)) = Cardinality(DOMAIN sstables[1].index)
               /\ (bld.src = <<>>) <=> (BlockStarts(bytes) = {})]_vars

\* C27 witness: a finished table with a block of one entry that is longer
\* than BLOCK_SIZE and a block of two entries or more.
C27_Witness ==
    /\ pc = <<"t_ready">>
    /\ \E o \in BlockStarts(FileBytes(bld.path)) :
          Len(BlockAt(FileBytes(bld.path), o)) > BLOCK_SIZE
    /\ \E o \in BlockStarts(FileBytes(bld.path)) :
          Len(KeysIn(BlockAt(FileBytes(bld.path), o), 0)) >= 2

\* the (first key, start offset) of every block that the entries es fill
\* when the block in progress starts at off and holds cur bytes
RECURSIVE BlockHeads(_, _, _)
BlockHeads(es, off, cur) ==
    IF es = <<>> THEN {}
    ELSE LET e == Head(es)
         IN IF cur = 0
            THEN {<<e[1], off>>} \cup BlockHeads(Tail(es), off, EntrySize(e))
            ELSE IF cur + EntrySize(e) > BLOCK_SIZE
            THEN {<<e[1], off + cur>>} \cup BlockHeads(Tail(es), off + cur, EntrySize(e))
            ELSE BlockHeads(Tail(es), off, cur + EntrySize(e))

\* the number of bytes of the entries es
RECURSIVE DataSize(_)
DataSize(es) == IF es = <<>> THEN 0 ELSE EntrySize(Head(es)) + DataSize(Tail(es))

\* the number of bytes of an index region with the keys ks
RECURSIVE IndexSize(_)
IndexSize(ks) == IF ks = <<>> THEN 0 ELSE 4 + Len(Head(ks)) + 8 + IndexSize(Tail(ks))

\* C28: in a finished table built from a strictly ascending feed the
\* entries on disk are the entries fed, in ascending key order; the index
\* holds one entry per written block, the block's first key with the offset
\* at which the block starts; offsets increase strictly with the index keys
\* and the first is 0; the footer is the length of the data region, which is
\* where the index begins.
C28_IndexAndFooter ==
    (pc = <<"t_ready">>) =>
        LET bytes == FileBytes(bld.path)
            index == sstables[1].index
            data == Slice(bytes, 0, FooterOf(bytes))
            ks == SortedSeq(DOMAIN index)
        IN /\ KeysIn(data, 0) = [i \in 1..Len(bld.src) |-> bld.src[i][1]]
           /\ \A i \in 1..(Len(KeysIn(data, 0)) - 1) :
                 StrLess(KeysIn(data, 0)[i], KeysIn(data, 0)[i + 1])
           /\ {<<k, index[k]>> : k \in DOMAIN index} = BlockHeads(bld.src, 0, 0)
           /\ \A i \in 1..(Len(ks) - 1) : index[ks[i]] < index[ks[i + 1]]
           /\ ks # <<>> => index[ks[1]] = 0
           /\ FooterOf(bytes) = DataSize(bld.src)
           /\ Len(bytes) = FooterOf(bytes) + IndexSize(ks) + 8

\* C28 witness: a finished table of three blocks or more whose data region
\* is longer than two blocks.
C28_Witness ==
    /\ pc = <<"t_ready">>
    /\ Cardinality(DOMAIN sstables[1].index) >= 3
    /\ FooterOf(FileBytes(bld.path)) > 2 * BLOCK_SIZE
    /\ Len(bld.src) > Cardinality(DOMAIN sstables[1].index)

(***************************************************************************)
(* Database::new and Database::load on a path that may already hold files. *)
(***************************************************************************)
\* "notes.txt"
NotesName == <<110, 111, 116, 101, 115, 46, 116, 120, 116>>
\* ".sst": Path::extension of a name whose only '.' is its first byte is None
HiddenName == SstSuffix
\* the files of no table and no WAL that a directory may hold
OtherNames == {NotesName, HiddenName}
\* "sstable_<t>.sst" of an earlier process
StaleTableName == FlushName(ClockStart - 1)

\* the files an earlier process left: wal.log holds walbytes, notes.txt two
\* bytes, every other file the bytes of a table with the entry ("a", "1")
StaleDir(names, walbytes) ==
    [x \in names |->
        [bytes |-> IF x = WalName THEN walbytes
                   ELSE IF x = NotesName THEN <<104, 105>>
                   ELSE CompactedFile,
         synced |-> TRUE, created |-> ClockStart - 1]]

\* no Database is open; the path does not exist, or is a directory with or
\* without a wal.log (empty or holding the record of set("a", "1")), a table
\* file and files of other names
InitDir ==
    \E present \in BOOLEAN :
    \E w \in {"none", "empty", "records"}, t \in SUBSET {StaleTableName}, o \in {{}, OtherNames} :
        /\ dir = IF present
                 THEN StaleDir((IF w = "none" THEN {} ELSE {WalName}) \cup t \cup o,
                               IF w = "records" THEN WalSetRecord(KeyA, Val1) ELSE <<>>)
                 ELSE StaleDir({}, <<>>)
        /\ pc = IF present THEN <<"closed">> ELSE <<"absent">>
        /\ memtable = MemTableNew
        /\ sstables = <<>>
        /\ compaction_policy = Disabled
        /\ last_compaction_time = ClockStart
        /\ clock = ClockStart
        /\ call = NoCall
        /\ bld = NoBuilder
        /\ iters = <<>>
        /\ expected = [k \in Keys |-> IF present /\ k = KeyA /\ (w = "records" \/ t # {})
                                      THEN Some(Val1) ELSE None]
        /\ snap = [get |-> expected, tables |-> Cardinality(t), memlen |-> 0,
                   memtable |-> MemTableNew, sstables |-> <<>>, wal |-> <<>>,
                   files |-> DOMAIN dir]
        /\ last_op = "none"
        /\ nwrites = 0
        /\ ncrashes = 0

\* WAL::new: OpenOptions create, write, append; an existing file keeps its
\* bytes
OpenWal(d) ==
    IF WalName \in DOMAIN d THEN d
    ELSE [x \in (DOMAIN d) \cup {WalName} |->
            IF x = WalName THEN [bytes |-> <<>>, synced |-> TRUE, created |-> clock]
            ELSE d[x]]

\* Database::new(path)
New ==
    /\ pc \in {<<"closed">>, <<"absent">>}
    /\ dir' = OpenWal(dir)
    /\ memtable' = MemTableNew
    /\ sstables' = <<>>
    /\ compaction_policy' = Disabled
    /\ last_compaction_time' = clock
    /\ pc' = <<>>
    /\ expected' = [k \in Keys |-> None]
    /\ last_op' = "new"
    /\ UNCHANGED <<clock, call, bld, iters, snap, nwrites, ncrashes>>

\* Database::load(path): Database::new when the path does not exist,
\* otherwise the WAL is opened and replayed and every *.sst file is opened
LoadDir ==
    /\ pc \in {<<"closed">>, <<"absent">>}
    /\ dir' = OpenWal(dir)
    /\ IF pc = <<"absent">>
       THEN /\ memtable' = MemTableNew
            /\ sstables' = <<>>
            /\ pc' = <<>>
       ELSE LET replay == WalReplay(OpenWal(dir)[WalName].bytes, 0, MemTableNew)
                readers == LoadReaders(OpenWal(dir))
                ok == replay.ok /\ \A i \in 1..Len(readers) : readers[i].ok
            IN /\ memtable' = IF ok THEN replay.memtable ELSE MemTableNew
               /\ sstables' = IF ok THEN [i \in 1..Len(readers) |->
                                            [path |-> readers[i].path,
                                             index |-> readers[i].index]]
                              ELSE <<>>
               /\ pc' = IF ok THEN <<>> ELSE <<"load_failed">>
    /\ compaction_policy' = Disabled
    /\ last_compaction_time' = clock
    /\ last_op' = "load"
    /\ UNCHANGED <<clock, call, bld, iters, expected, snap, nwrites, ncrashes>>

\* new or load on the path, then set("a", "2") and compact() on the engine
NextDir ==
    \/ New
    \/ LoadDir
    \/ SetWal(KeyA, Val2)
    \/ WriteMem
    \/ WriteTrigger
    \/ Compact
    \/ FlushBegin
    \/ FlushAdd
    \/ FlushFinish
    \/ FlushRegister
    \/ FlushClearMem
    \/ FlushClearWal
    \/ CompactStart
    \/ MergeStep
    \/ CompactFinish
    \/ \E n \in DOMAIN dir : CompactDelete(n)
    \/ CompactInstall

SpecDir == InitDir /\ [][NextDir]_vars

\* C29: Database::new returns an engine with an empty WAL, an empty
\* memtable and an empty table list whatever the path held before, and
\* Database::load of a path that does not exist returns that same engine.
C29_NewIsEmpty ==
    [][/\ (pc \in {<<"closed">>, <<"absent">>} /\ last_op' = "new") =>
             /\ pc' = <<>>
             /\ WalName \in DOMAIN dir'
             /\ dir'[WalName].bytes = <<>>
             /\ memtable' = MemTableNew
             /\ sstables' = <<>>
       /\ (pc = <<"absent">> /\ last_op' = "load") =>
             /\ pc' = <<>>
             /\ DOMAIN dir' = {WalName}
             /\ dir'[WalName].bytes = <<>>
             /\ memtable' = MemTableNew
             /\ sstables' = <<>>
             /\ compaction_policy' = Disabled
             /\ last_compaction_time' = clock]_vars

\* the files of d that are neither wal.log nor one of OtherNames: the *.sst
\* files
TableNames(d) == DOMAIN d \ ({WalName} \cup OtherNames)

\* what one step does to the files: load opens a reader for each *.sst file
\* and for no other; no step removes or changes a file of another name or
\* removes wal.log; only the deletion loop of compact removes files, all of
\* them *.sst and none the table just written, and like the merge it leaves
\* wal.log as it is
SstOnly ==
    /\ (pc = <<"closed">> /\ last_op' = "load" /\ pc' = <<>>) =>
          /\ {sstables'[i].path : i \in 1..Len(sstables')} = TableNames(dir')
          /\ Len(sstables') = Cardinality(TableNames(dir'))
    /\ \A n \in OtherNames \cap DOMAIN dir : n \in DOMAIN dir' /\ dir'[n] = dir[n]
    /\ WalName \in DOMAIN dir => WalName \in DOMAIN dir'
    /\ (DOMAIN dir) \ (DOMAIN dir') # {} =>
          /\ Head(pc) = "c_delete"
          /\ (DOMAIN dir) \ (DOMAIN dir') \subseteq TableNames(dir) \ {bld.path}
          /\ \A n \in DOMAIN dir' : dir'[n] = dir[n]
    /\ (pc # <<>> /\ Head(pc) \in {"c_start", "c_merge", "c_delete"}) =>
          dir'[WalName] = dir[WalName]

\* a call of compact() returns
CompactReturns == pc # <<>> /\ pc' = <<>> /\ call.op = "compact"

\* C30: only *.sst files are tables for load and for compact, and compact()
\* returns with wal.log holding the bytes it held when compact() was called.
C30_OnlySstTouched ==
    [][/\ SstOnly
       /\ CompactReturns => dir'[WalName].bytes = snap.wal]_vars

\* C30, amended: only *.sst files are tables for load and for the deletion
\* loop of compact; compact() returns with wal.log in place, holding the
\* bytes it held at the call when the memtable was empty then, and no bytes
\* when it was not, the flush compact() begins with having truncated it.
C30_OnlySstAreTables ==
    [][/\ SstOnly
       /\ CompactReturns =>
             dir'[WalName].bytes = IF snap.memlen = 0 THEN snap.wal ELSE <<>>]_vars

\* C30 witness: compact() has returned on a loaded engine; it began with a
\* record in wal.log and an entry in the memtable, it has removed the table
\* file the directory held before, and notes.txt and .sst are in place.
C30_Witness ==
    /\ pc = <<>>
    /\ last_op = "compact"
    /\ snap.memlen > 0
    /\ snap.wal # <<>>
    /\ StaleTableName \in snap.files
    /\ StaleTableName \notin DOMAIN dir
    /\ OtherNames \subseteq DOMAIN dir
    /\ Len(sstables) = 1
    /\ wal = <<>>

(***************************************************************************)
(* get_by_prefix on keys that hold the character U+10FFFF.                 *)
(***************************************************************************)
\* "a", "ab", "a\u{10FFFF}", "a\u{10FFFF}z", "b", in byte order
MaxCharKeys == <<KeyA, KeyAB, KeyA \o MaxChar, KeyA \o MaxChar \o <<122>>, <<98>>>>
\* the prefixes asked: "", "a", "a\u{10FFFF}", "b"
MaxCharPrefixes == {<<>>, KeyA, KeyA \o MaxChar, <<98>>}

\* the entries (k, k) of the keys of MaxCharKeys that f selects, from the
\* i-th on
RECURSIVE SelfEntries(_, _)
SelfEntries(f, i) ==
    IF i > Len(MaxCharKeys) THEN <<>>
    ELSE (IF f[i] THEN <<<<MaxCharKeys[i], Some(MaxCharKeys[i])>>>> ELSE <<>>)
         \o SelfEntries(f, i + 1)

\* the engine after new, set(k, k) for the selected keys and flush, and then
\* nothing or del("ab")
InitPrefix ==
    \E f \in [1..Len(MaxCharKeys) -> BOOLEAN],
       ms \in {<<>>, <<[op |-> "del", key |-> KeyAB, value |-> <<>>]>>} :
        /\ SelfEntries(f, 1) # <<>>
        /\ dir = [x \in {WalName, FlushName(ClockStart)} |->
                    IF x = WalName
                    THEN [bytes |-> WalRecordsOf(ms), synced |-> TRUE,
                          created |-> ClockStart - 1]
                    ELSE [bytes |-> BuilderFinish(BuildAll(BuilderNew, SelfEntries(f, 1))),
                          synced |-> TRUE, created |-> ClockStart]]
        /\ memtable = MemTableAfter(MemTableNew, ms)
        /\ sstables = <<[path |-> FlushName(ClockStart),
                         index |-> ReaderNew(FileBytes(FlushName(ClockStart))).index]>>
        /\ compaction_policy = Disabled
        /\ last_compaction_time = ClockStart - 1
        /\ clock = ClockStart + 1
        /\ pc = <<>>
        /\ call = NoCall
        /\ bld = NoBuilder
        /\ iters = <<>>
        /\ expected = [k \in Keys |-> None]
        /\ snap = [get |-> expected, tables |-> 1, memlen |-> 0, memtable |-> MemTableNew,
                   sstables |-> <<>>, wal |-> <<>>, files |-> DOMAIN dir]
        /\ last_op = "none"
        /\ nwrites = 0
        /\ ncrashes = 0

NextPrefix == \E p \in MaxCharPrefixes : EngineGetByPrefix(p)

\* get_by_prefix on one engine with one sealed table
SpecPrefix == InitPrefix /\ [][NextPrefix]_vars

\* the keys of the entries of the sealed table
FlushedKeys ==
    {MaxCharKeys[i] : i \in {j \in 1..Len(MaxCharKeys) :
        \E n \in 1..Len(TableItems(sstables[1].path)) :
            TableItems(sstables[1].path)[n] = Ok(MaxCharKeys[j], Some(MaxCharKeys[j]))}}

\* C31: every flushed key k that starts with the prefix p of get_by_prefix
\* lies between p and p followed by U+10FFFF in byte order, and a scan of
\* the table over that range that succeeds returns k.
C31_PrefixBoundCovers ==
    (call.op = "get_by_prefix") =>
        \A k \in FlushedKeys :
            StartsWith(k, call.prefix) =>
                /\ StrLeq(call.prefix, k)
                /\ StrLeq(k, call.prefix \o MaxChar)
                /\ ScanOf(1, call.prefix).ok =>
                      \E n \in 1..Len(ScanOf(1, call.prefix).results) :
                          ScanOf(1, call.prefix).results[n][1] = k

\* C32: when the process stops in compact() after the compacted table was
\* finalized (before, between or after the deletions of the input files,
\* before the reader is installed), load succeeds and get(k) of the loaded
\* engine is what get(k) was when compact() was called, for every key k.
C32_CrashInDeletion ==
    (last_op = "crash in c_delete") =>
        /\ pc # <<"load_failed">>
        /\ Idle => \A k \in Keys : Get(k) = snap.get[k]

\* C33: when the process stops in a flush or a compaction before the new
\* table file is finalized (the file is created and holds at most some
\* blocks, no index and no footer), load succeeds and get(k) of the loaded
\* engine is the latest committed mutation of k, for every key k.
C33_CrashBeforeFinalize ==
    (last_op \in {"crash in f_build", "crash in c_merge"}) =>
        /\ pc # <<"load_failed">>
        /\ Idle => \A k \in Keys : Get(k) = expected[k]

(***************************************************************************)
(* compact() on tables of which one may hold a record that cannot be       *)
(* decoded.                                                                *)
(***************************************************************************)
\* the table file of the entries es in which the first key byte of the j-th
\* entry is 0xFF, which is no UTF-8; j = 0 leaves the file as written
Damaged(es, j) ==
    LET bytes == BuilderFinish(BuildAll(BuilderNew, es))
    IN IF j = 0 THEN bytes
       ELSE [bytes EXCEPT ![DataSize(SubSeq(es, 1, j - 1)) + 5] = 255]

\* the engine load returns on a directory with two tables: the older holds
\* (k, "1") for the keys of older and may be damaged in one record, the
\* newer holds tombstones for the keys of newer; the keys are among the
\* first n
InitMergeOf(n) ==
    \E older \in [1..MaxEntries -> {"absent", "small"}],
       newer \in [1..MaxEntries -> {"absent", "tombstone"}] :
    \E j \in 0..Len(EntriesOf(LetterKeys, older, 1)) :
        /\ \A i \in (n + 1)..MaxEntries : older[i] = "absent" /\ newer[i] = "absent"
        /\ EntriesOf(LetterKeys, older, 1) # <<>>
        /\ EntriesOf(LetterKeys, newer, 1) # <<>>
        /\ dir = [x \in {WalName, FlushName(ClockStart), FlushName(ClockStart + 1)} |->
                    IF x = WalName
                    THEN [bytes |-> <<>>, synced |-> TRUE, created |-> ClockStart - 1]
                    ELSE IF x = FlushName(ClockStart)
                    THEN [bytes |-> Damaged(EntriesOf(LetterKeys, older, 1), j),
                          synced |-> TRUE, created |-> ClockStart]
                    ELSE [bytes |-> Damaged(EntriesOf(LetterKeys, newer, 1), 0),
                          synced |-> TRUE, created |-> ClockStart + 1]]
        /\ memtable = MemTableNew
        /\ sstables = <<[path |-> FlushName(ClockStart + 1),
                         index |-> ReaderNew(FileBytes(FlushName(ClockStart + 1))).index],
                        [path |-> FlushName(ClockStart),
                         index |-> ReaderNew(FileBytes(FlushName(ClockStart))).index]>>
        /\ compaction_policy = Disabled
        /\ last_compaction_time = ClockStart + 2
        /\ clock = ClockStart + 2
        /\ pc = <<>>
        /\ call = NoCall
        /\ bld = NoBuilder
        /\ iters = <<>>
        /\ expected = [k \in Keys |-> None]
        /\ snap = [get |-> expected, tables |-> 2, memlen |-> 0, memtable |-> MemTableNew,
                   sstables |-> sstables, wal |-> <<>>, files |-> DOMAIN dir]
        /\ last_op = "load"
        /\ nwrites = 0
        /\ ncrashes = 0

InitMerge == InitMergeOf(MaxEntries)

\* compact() on the engine: the flush of the empty memtable, the merge, the
\* deletion loop and the new reader
NextMerge ==
    \/ Compact
    \/ FlushBegin
    \/ CompactStart
    \/ MergeStep
    \/ CompactFinish
    \/ \E n \in DOMAIN dir : CompactDelete(n)
    \/ CompactInstall

SpecMerge == InitMerge /\ [][NextMerge]_vars

\* an input iterator of the running merge has yielded an error
MergeStopped ==
    \E i \in 1..Len(iters) :
        /\ iters[i].peeked.tag = "Some"
        /\ iters[i].peeked.val.tag = "Some"
        /\ iters[i].peeked.val.val.tag = "Err"

\* C34: when an input iterator of compact() has yielded an error, compact()
\* finalizes no output, deletes no file of the directory and does not
\* return Ok.
C34_MergeErrorAborts ==
    [][(pc # <<>> /\ Head(pc) \in {"c_merge", "c_delete"} /\ MergeStopped) =>
          /\ DOMAIN dir \subseteq DOMAIN dir'
          /\ pc' # <<>>
          /\ Head(pc') # "c_delete"]_vars

(***************************************************************************)
(* Reads between the writes of one engine.                                 *)
(***************************************************************************)
\* set_compaction_policy, set, del, flush, get and get_by_prefix on one
\* engine
NextReadOnly ==
    \/ \E p \in Policies : SetCompactionPolicy(p)
    \/ \E k \in Keys : SetWal(k, Val1)
    \/ DelWal(KeyA)
    \/ WriteMem
    \/ WriteTrigger
    \/ Flush
    \/ FlushBegin
    \/ FlushAdd
    \/ FlushFinish
    \/ FlushRegister
    \/ FlushClearMem
    \/ FlushClearWal
    \/ CompactStart
    \/ MergeStep
    \/ CompactFinish
    \/ \E n \in DOMAIN dir : CompactDelete(n)
    \/ CompactInstall
    \/ \E k \in Keys : EngineGet(k)
    \/ \E p \in Prefixes : EngineGetByPrefix(p)

SpecReadOnly == InitThreshold /\ [][NextReadOnly]_vars

\* a step of get or get_by_prefix: the call starts between two calls and its
\* result is in call
ReadStep == pc = <<>> /\ call'.op \in {"get", "get_by_prefix"} /\ last_op' = call'.op

\* C35: get and get_by_prefix return at once and leave the memtable, the
\* files of the directory and their bytes (the WAL among them), the table
\* list, the compaction policy and the compaction timestamp as they were;
\* no flush and no compaction is started.
C35_ReadsChangeNothing ==
    [][ReadStep =>
          /\ pc' = <<>>
          /\ memtable' = memtable
          /\ dir' = dir
          /\ sstables' = sstables
          /\ compaction_policy' = compaction_policy
          /\ last_compaction_time' = last_compaction_time
          /\ bld' = bld
          /\ iters' = iters]_vars

\* C35 witness: get has returned on an engine with a sealed table and a
\* non-empty memtable whose periodic compaction is due.
C35_Witness ==
    /\ pc = <<>>
    /\ last_op = "get"
    /\ call.op = "get"
    /\ sstables # <<>>
    /\ MemTableLen(memtable) > 0
    /\ wal # <<>>
    /\ compaction_policy.tag = "Periodic"
    /\ clock - last_compaction_time >= compaction_policy.d

\* the same, the merge loop taking its next step whenever it has one: the
\* thread that called compact() runs on until the call returns
SpecMergeFair ==
    InitMergeOf(MaxEntries - 1) /\ [][NextMerge]_vars /\ WF_vars(MergeStep) /\ WF_vars(CompactFinish)

\* the merge loop of compact() is running
InMerge == pc # <<>> /\ Head(pc) = "c_merge"

\* the entries the iterator itr can still yield: the peeked one and those
\* before the end of the data region or the first record that fails
RECURSIVE OksFrom(_, _)
OksFrom(bytes, it) ==
    CHOOSE n \in {IF r.item.tag = "None" THEN 0
                  ELSE IF r.item.val.tag = "Err" THEN 0
                  ELSE 1 + OksFrom(bytes, r.it) : r \in {IterNext(bytes, it)}} : TRUE

UnreadOf(itr) ==
    IF itr.peeked.tag = "None" THEN OksFrom(FileBytes(itr.path), itr.it)
    ELSE IF itr.peeked.val.tag = "Some" /\ itr.peeked.val.val.tag = "Ok"
    THEN 1 + OksFrom(FileBytes(itr.path), itr.it)
    ELSE 0

RECURSIVE UnreadFrom(_)
UnreadFrom(i) == IF i > Len(iters) THEN 0 ELSE UnreadOf(iters[i]) + UnreadFrom(i + 1)

\* the entries the input iterators of the merge can still yield
Unread == UnreadFrom(1)

\* C36: an iteration of the merge loop that does not end the loop consumes
\* at least one entry of an input iterator; the loop goes on while an
\* iterator has an entry to yield and ends when none has, all being
\* exhausted or stopped at an error; so the loop ends.
C36_MergeTerminates ==
    /\ [][InMerge =>
            /\ (pc' # <<>> /\ Head(pc') = "c_merge") => (Unread > 0 /\ Unread' < Unread)
            /\ ~(pc' # <<>> /\ Head(pc') = "c_merge") => Unread = 0]_vars
    /\ InMerge ~> ~InMerge

\* C36 witness: the merge loop has ended after it wrote two entries or more,
\* one input iterator exhausted and one stopped at an error.
C36_Witness ==
    /\ pc # <<>> /\ Head(pc) = "c_delete"
    /\ MergeStopped
    /\ \E i \in 1..Len(iters) : iters[i].peeked = Some(None)
    /\ Len(TableItems(bld.path)) >= 2

====
